---- MODULE Spec2Model ----
(***************************************************************************)
(* Model of the retirement-savings projection backend (akakileti/capstone).*)
(*                                                                         *)
(*   backend/core/projection.py    _make_intervals, _active_row, the tax   *)
(*                                 helpers, project_savings_with_retirement,*)
(*                                 rates_for_scenario, simulate_scenario    *)
(*   backend/domain/accumulation.py prepare_plan, _validate_rows,          *)
(*                                 _expand_*, accumulate_plan               *)
(*                                                                         *)
(* Python floats are modelled as exact rationals [n, d] (d > 0, lowest     *)
(* terms); Optional[int] values as sequences (<<>> is None, <<k>> is k).   *)
(***************************************************************************)
EXTENDS Integers, Sequences, FiniteSets, TLC

VARIABLES
    \* ---- interval helpers applied to one rule list ----
    iv_pc,          \* "input" | "built" | "looked_up"
    iv_rows,        \* the rule list handed to _make_intervals / _validate_rows
    iv_stop,        \* stop_age / fallback_end
    iv_intervals,   \* result of _make_intervals
    iv_validation,  \* result of _validate_rows: [errors, warnings]
    iv_age,         \* the age handed to _active_row (<<>> before the call)
    iv_active       \* result of _active_row: <<>> (None) or <<row>>

iv_vars == <<iv_pc, iv_rows, iv_stop, iv_intervals, iv_validation, iv_age, iv_active>>

VARIABLES
    \* ---- the multi-account engine: one request to /api/calc/accumulation ----
    ap_pc,            \* "idle" | "request" | "prepared" | "rejected" | "simulating" | "done"
    ap_plan,           \* the validated Plan of the request (<<>> when idle)
    ap_prepared,       \* <<>> or <<PreparedPlan>>
    ap_validation,     \* PlanValidation: [errors, warnings]
    ap_entries,        \* AccumulationResult.entries built so far
    ap_scenario,      \* index of the scenario being simulated
    ap_age,           \* age of the next loop iteration
    ap_balances,       \* one balance per account
    ap_inflation_factor,  \* cumulative (1 + inflation_rate) ** offset
    ap_response        \* <<>> or <<the handler's response>>

ap_vars == <<ap_pc, ap_plan, ap_prepared, ap_validation, ap_entries, ap_scenario, ap_age,
             ap_balances, ap_inflation_factor, ap_response>>

VARIABLES
    \* ---- one call of project_savings_with_retirement ----
    ps_pc,          \* "idle" | "call" | "running" | "done"
    ps_req,         \* the arguments of the call
    ps_age,         \* age of the next loop iteration
    ps_bal,         \* bal_min, bal_avg, bal_max
    ps_basis,       \* basis_min, basis_avg, basis_max
    ps_prev_spend,  \* prev_spend_min/avg/max: <<>> (None) or <<amount>>
    ps_year,        \* locals of the latest iteration (unrounded)
    ps_rows         \* the YearRowWithSpending rows appended so far

ps_vars == <<ps_pc, ps_req, ps_age, ps_bal, ps_basis, ps_prev_spend, ps_year, ps_rows>>

VARIABLES
    \* ---- one call of project_plan, which runs simulate_scenario three times ----
    ss_pc,          \* "idle" | "call" | "running" | "zip" | "done"
    ss_plan,        \* the PlanInputs
    ss_yar,         \* years_after_retirement
    ss_k,           \* index of the scenario being simulated (MIN, AVG, MAX)
    ss_rates,       \* rates_for_scenario(plan.growth, scenario)
    ss_age,         \* age of the next loop iteration
    ss_balance,     \* balance
    ss_prev_spend_by_item,  \* item index -> last year's nominal spending
    ss_rows,        \* rows of the scenario being simulated
    ss_runs,        \* the row lists of the finished scenarios
    ss_result       \* the YearlyRow list returned by project_plan

ss_vars == <<ss_pc, ss_plan, ss_yar, ss_k, ss_rates, ss_age, ss_balance,
             ss_prev_spend_by_item, ss_rows, ss_runs, ss_result>>

vars == <<iv_vars, ap_vars, ps_vars, ss_vars>>

-----------------------------------------------------------------------------
(* Bounds of the model *)

\* longest rule list handed to the interval helpers
MaxRows == 3
\* most rules a request to the multi-account engine declares, all rule-sets together
MaxPlanRules == 2
\* rule ages are drawn from FirstAge .. FirstAge + AgeSpan
AgeSpan == 2
\* explicit durations (years) are drawn from -1 .. MaxYears
MaxYears == 2
\* years simulated after retirement: none, or MaxYearsAfter
MaxYearsAfter == 2

FirstAge == 30

-----------------------------------------------------------------------------
(* Python values *)

NoneVal == <<>>
Some(x) == <<x>>
IsNone(o) == o = <<>>
Val(o) == o[1]

Min(a, b) == IF a <= b THEN a ELSE b
Max(a, b) == IF a >= b THEN a ELSE b

\* All sequences over S of length <= n
SeqUpTo(S, n) == UNION {[1..k -> S] : k \in 0..n}

-----------------------------------------------------------------------------
(* Exact rationals standing for Python floats *)

Abs(x) == IF x < 0 THEN -x ELSE x

RECURSIVE Gcd(_, _)
Gcd(a, b) == IF b = 0 THEN a ELSE Gcd(b, a % b)

\* n/d in lowest terms with a positive denominator (d # 0)
Q(n, d) ==
    LET g == Gcd(Abs(n), Abs(d))
        s == IF d < 0 THEN -1 ELSE 1
    IN [n |-> (s * n) \div g, d |-> (s * d) \div g]

QInt(k) == [n |-> k, d |-> 1]
QZero == QInt(0)
QOne == QInt(1)
\* The operations reduce before they multiply, to keep the integers small.
QScale(a, l) == a.n * (l \div a.d)
Lcm(x, y) == (x \div Gcd(x, y)) * y
QAdd(a, b) == LET l == Lcm(a.d, b.d) IN Q(QScale(a, l) + QScale(b, l), l)
QSub(a, b) == LET l == Lcm(a.d, b.d) IN Q(QScale(a, l) - QScale(b, l), l)
QMul(a, b) ==
    LET g1 == Gcd(Abs(a.n), b.d)
        g2 == Gcd(Abs(b.n), a.d)
    IN Q((a.n \div g1) * (b.n \div g2), (a.d \div g2) * (b.d \div g1))
QDiv(a, b) == QMul(a, IF b.n < 0 THEN [n |-> -b.d, d |-> -b.n] ELSE [n |-> b.d, d |-> b.n])
\* Comparisons look at the whole parts first and then at the fractions.
QWhole(a) == a.n \div a.d
QFrac(a, l) == (a.n - QWhole(a) * a.d) * (l \div a.d)
QLt(a, b) ==
    \/ QWhole(a) < QWhole(b)
    \/ QWhole(a) = QWhole(b) /\ QFrac(a, Lcm(a.d, b.d)) < QFrac(b, Lcm(a.d, b.d))
QLe(a, b) == ~QLt(b, a)
QMax(a, b) == IF QLe(b, a) THEN a ELSE b
QMin(a, b) == IF QLe(a, b) THEN a ELSE b

\* r ** k for an int k >= 0
RECURSIVE QPow(_, _)
QPow(r, k) == IF k = 0 THEN QOne ELSE QMul(r, QPow(r, k - 1))

\* sum(...) of a list of rationals
RECURSIVE QSum(_)
QSum(s) == IF s = <<>> THEN QZero ELSE QAdd(QSum(SubSeq(s, 1, Len(s) - 1)), s[Len(s)])

-----------------------------------------------------------------------------
(* core/projection.py: interval helpers *)

\* sorted(rows, key=lambda r: r.fromAge): Python's sort is stable, so a row
\* goes after every row already placed whose key is <= its own.
InsertByFromAge(s, r) ==
    LET k == Cardinality({i \in 1..Len(s) : s[i].fromAge <= r.fromAge})
    IN SubSeq(s, 1, k) \o <<r>> \o SubSeq(s, k + 1, Len(s))

RECURSIVE SortByFromAge(_)
SortByFromAge(rows) ==
    IF rows = <<>> THEN <<>>
    ELSE InsertByFromAge(SortByFromAge(SubSeq(rows, 1, Len(rows) - 1)), rows[Len(rows)])

\* One iteration of the loop of _make_intervals: the interval of rows_sorted[i].
IntervalOf(rows_sorted, i, stop_age) ==
    LET row == rows_sorted[i]
        next_start == IF i + 1 <= Len(rows_sorted)
                      THEN rows_sorted[i + 1].fromAge ELSE stop_age
        end0 == row.fromAge + (IF ~IsNone(row.years) THEN Val(row.years)
                               ELSE Max(next_start - row.fromAge, 0))
        end == IF end0 <= row.fromAge THEN next_start ELSE end0
    IN [start |-> row.fromAge, end |-> end, row |-> row]

_make_intervals(rows, stop_age) ==
    LET rows_sorted == SortByFromAge(rows)
    IN [i \in 1..Len(rows_sorted) |-> IntervalOf(rows_sorted, i, stop_age)]

\* _active_row scans the intervals in order and returns the row of the first one
\* with start <= age < end; None when the loop ends without a match.
RECURSIVE ActiveRowFrom(_, _, _)
ActiveRowFrom(intervals, k, age) ==
    IF k > Len(intervals) THEN NoneVal
    ELSE IF intervals[k].start <= age /\ age < intervals[k].end
         THEN Some(intervals[k].row)
         ELSE ActiveRowFrom(intervals, k + 1, age)

\* A lookup that treats the interval as closed on the right
ActiveRowClosed(intervals, age) ==
    LET hits == {i \in 1..Len(intervals) :
                    intervals[i].start <= age /\ age <= intervals[i].end}
    IN IF hits = {} THEN NoneVal
       ELSE Some(intervals[CHOOSE i \in hits : \A j \in hits : i <= j].row)

_active_row(intervals, age) == ActiveRowFrom(intervals, 1, age)

-----------------------------------------------------------------------------
(* domain/accumulation.py: rule windows and their validation *)

\* Python truthiness of an Optional[int]: None and 0 are false.
Truthy(o) == ~IsNone(o) /\ Val(o) # 0

\* sorted(entries, key=lambda row: row.from_age), stable
InsertByFrom_age(s, r) ==
    LET k == Cardinality({i \in 1..Len(s) : s[i].from_age <= r.from_age})
    IN SubSeq(s, 1, k) \o <<r>> \o SubSeq(s, k + 1, Len(s))

RECURSIVE SortByFrom_age(_)
SortByFrom_age(rows) ==
    IF rows = <<>> THEN <<>>
    ELSE InsertByFrom_age(SortByFrom_age(SubSeq(rows, 1, Len(rows) - 1)), rows[Len(rows)])

\* A window end that ignores explicit years: every rule runs to the next one
WindowEndIgnoringYears(sorted_rows, idx, fallback_end) ==
    LET next_start == IF idx + 1 <= Len(sorted_rows)
                      THEN sorted_rows[idx + 1].from_age ELSE fallback_end
    IN Min(next_start, fallback_end)

\* The window end computed for sorted_rows[idx] by _validate_rows and, with the
\* same expressions, by _expand_contributions, _expand_overrides and
\* _expand_spending: explicit years if truthy, else the next rule's from_age
\* (fallback_end for the last), then min with fallback_end.
WindowEnd(sorted_rows, idx, fallback_end) ==
    LET row == sorted_rows[idx]
        next_start == IF idx + 1 <= Len(sorted_rows)
                      THEN sorted_rows[idx + 1].from_age ELSE fallback_end
        end == IF Truthy(row.years) THEN row.from_age + Val(row.years) ELSE next_start
    IN Min(end, fallback_end)

\* The messages of _validate_rows, f"{label} <kind> ..." with their two ages.
InvalidWindowMsg(label, row) ==
    [label |-> label, kind |-> "invalid window at age", a |-> row.from_age, b |-> row.from_age]
OverlapMsg(label, row, previous_end) ==
    [label |-> label, kind |-> "overlap ages", a |-> row.from_age, b |-> previous_end]
GapMsg(label, row, previous_end) ==
    [label |-> label, kind |-> "gap ages", a |-> previous_end, b |-> row.from_age]

\* The loop of _validate_rows from index idx on; previous_end is <<>> (None)
\* before the first row. acc carries the errors and warnings found so far.
RECURSIVE ValidateLoop(_, _, _, _, _, _)
ValidateLoop(sorted_rows, idx, previous_end, fallback_end, label, acc) ==
    IF idx > Len(sorted_rows) THEN acc
    ELSE
      LET row == sorted_rows[idx]
          end == WindowEnd(sorted_rows, idx, fallback_end)
          e1  == IF end <= row.from_age
                 THEN Append(acc.errors, InvalidWindowMsg(label, row))
                 ELSE acc.errors
          e2  == IF ~IsNone(previous_end) /\ row.from_age < Val(previous_end)
                 THEN Append(e1, OverlapMsg(label, row, Val(previous_end)))
                 ELSE e1
          w   == IF ~IsNone(previous_end) /\ ~(row.from_age < Val(previous_end))
                    /\ row.from_age > Val(previous_end)
                 THEN Append(acc.warnings, GapMsg(label, row, Val(previous_end)))
                 ELSE acc.warnings
      IN ValidateLoop(sorted_rows, idx + 1, Some(end), fallback_end, label,
                      [errors |-> e2, warnings |-> w])

_validate_rows(rows, fallback_end, label) ==
    IF rows = <<>> THEN [errors |-> <<>>, warnings |-> <<>>]
    ELSE ValidateLoop(SortByFrom_age(rows), 1, NoneVal, fallback_end, label,
                      [errors |-> <<>>, warnings |-> <<>>])

\* The windows [from_age, end) of a rule-set, in from_age order.
Windows(rows, fallback_end) ==
    LET sorted_rows == SortByFrom_age(rows)
    IN [i \in 1..Len(sorted_rows) |->
          [start |-> sorted_rows[i].from_age,
           end   |-> WindowEnd(sorted_rows, i, fallback_end),
           row   |-> sorted_rows[i]]]

-----------------------------------------------------------------------------
(* domain/accumulation.py: prepare_plan *)

\* A float is falsy exactly when it is zero
NonZero(q) == q.n # 0

\* max(retire_age - start_age, 1) years of the flat annual contribution
MainContribution(plan) ==
    [from_age |-> plan.start_age, base |-> plan.annual_contribution,
     growth_rate |-> QZero, years |-> Some(Max(plan.retire_age - plan.start_age, 1))]

_build_accounts(plan) ==
    LET accounts == [i \in 1..Len(plan.accounts) |->
                        [label            |-> plan.accounts[i].label,
                         initial_balance  |-> plan.accounts[i].initial_balance,
                         contributions    |-> plan.accounts[i].contributions,
                         growth_overrides |-> plan.accounts[i].growth_overrides]]
    IN IF accounts = <<>>
       THEN << [label            |-> "Main",
                initial_balance  |-> plan.initial_balance,
                contributions    |-> IF NonZero(plan.annual_contribution)
                                     THEN <<MainContribution(plan)>> ELSE <<>>,
                growth_overrides |-> <<>>] >>
       ELSE LET other_total == QSum([i \in 1..(Len(accounts) - 1) |->
                                        accounts[i + 1].initial_balance])
                first_balance == QMax(QSub(plan.initial_balance, other_total), QZero)
            IN [accounts EXCEPT ![1].initial_balance = first_balance]

\* SpendingRow(fromAge=retire_age, annualSpending=starting_retirement_spending, years=25)
DefaultSpendingYears == 25
DefaultSpendingRow(plan) ==
    [from_age |-> plan.retire_age, annual_spending |-> plan.starting_retirement_spending,
     years |-> Some(DefaultSpendingYears)]

\* row.model_copy(update={"annualSpending": ...}) is handed the field's alias, not
\* its name (annual_spending). Whether the copy's annual_spending field takes the
\* new value is decided by pydantic, outside this repository: update_hits_field
\* is TRUE when it does and FALSE when the row keeps its declared amount.
_build_spending(plan, update_hits_field) ==
    LET schedule == plan.spending_schedule
        at_retire == {i \in 1..Len(schedule) : schedule[i].from_age = plan.retire_age}
    IN IF schedule # <<>>
       THEN IF at_retire # {}
            THEN LET idx == CHOOSE i \in at_retire : \A j \in at_retire : i <= j
                 IN IF update_hits_field
                    THEN [schedule EXCEPT
                            ![idx].annual_spending = plan.starting_retirement_spending]
                    ELSE schedule
            ELSE IF NonZero(plan.starting_retirement_spending)
                 THEN Append(schedule, DefaultSpendingRow(plan))
                 ELSE schedule
       ELSE IF NonZero(plan.starting_retirement_spending)
            THEN <<DefaultSpendingRow(plan)>>
            ELSE schedule

\* Fallback ends of the three kinds of rule-set
SpendingHorizon == 60
ContributionsEnd(retire_age) == retire_age
OverridesEnd(retire_age) == retire_age + 1
SpendingEnd(retire_age) == retire_age + SpendingHorizon

\* The errors and warnings of the accounts from index i on, in the order of the
\* loop of prepare_plan: contributions, then growth overrides, per account.
RECURSIVE ValidateAccounts(_, _, _, _)
ValidateAccounts(accounts, i, retire_age, acc) ==
    IF i > Len(accounts) THEN acc
    ELSE LET c == _validate_rows(accounts[i].contributions, ContributionsEnd(retire_age),
                                 accounts[i].label \o " contributions")
             o == _validate_rows(accounts[i].growth_overrides, OverridesEnd(retire_age),
                                 accounts[i].label \o " growth overrides")
         IN ValidateAccounts(accounts, i + 1, retire_age,
                [errors   |-> acc.errors \o c.errors \o o.errors,
                 warnings |-> acc.warnings \o c.warnings \o o.warnings])

\* A prepare_plan that forgets to extend the errors with the spending schedule's
PreparePlanWithoutSpendingErrors(plan, update_hits_field) ==
    LET accounts == _build_accounts(plan)
        av == ValidateAccounts(accounts, 1, plan.retire_age,
                               [errors |-> <<>>, warnings |-> <<>>])
    IN [prepared   |-> [start_age         |-> plan.start_age,
                        retire_age        |-> plan.retire_age,
                        inflation_rate    |-> plan.inflation_rate,
                        accounts          |-> accounts,
                        spending_schedule |-> _build_spending(plan, update_hits_field),
                        scenarios         |-> plan.scenarios],
        validation |-> av]

\* prepare_plan(plan) -> (PreparedPlan, PlanValidation)
prepare_plan(plan, update_hits_field) ==
    LET accounts == _build_accounts(plan)
        spending == _build_spending(plan, update_hits_field)
        av == ValidateAccounts(accounts, 1, plan.retire_age,
                               [errors |-> <<>>, warnings |-> <<>>])
        sv == _validate_rows(spending, SpendingEnd(plan.retire_age), "spending schedule")
    IN [prepared   |-> [start_age         |-> plan.start_age,
                        retire_age        |-> plan.retire_age,
                        inflation_rate    |-> plan.inflation_rate,
                        accounts          |-> accounts,
                        spending_schedule |-> spending,
                        scenarios         |-> plan.scenarios],
        validation |-> [errors   |-> av.errors \o sv.errors,
                        warnings |-> av.warnings \o sv.warnings]]

-----------------------------------------------------------------------------
(* domain/accumulation.py: accumulate_plan *)

\* schedule.get(age, default)
Get(schedule, age, default) == IF age \in DOMAIN schedule THEN schedule[age] ELSE default

\* amount = row.base * (1 + row.growth_rate) ** offset
ContributionAmount(row, age) ==
    QMul(row.base, QPow(QAdd(QOne, row.growth_rate), age - row.from_age))
OverrideRate(row, age) == row.rate
SpendingAmount(row, age) == row.annual_spending

\* The value a rule of the given kind puts in the schedule at an age
ValueAt(kind, row, age) ==
    IF kind = "contributions" THEN ContributionAmount(row, age)
    ELSE IF kind = "overrides" THEN OverrideRate(row, age)
    ELSE SpendingAmount(row, age)

\* The loops "for age in range(row.from_age, end): schedule[age] = value" over the
\* sorted rows from index idx on; a later row overwrites an earlier one's ages.
\* stop is the age at which _expand_contributions breaks (no age >= stop is set).
RECURSIVE ExpandLoop(_, _, _, _, _, _)
ExpandLoop(sorted_rows, idx, fallback_end, stop, kind, schedule) ==
    IF idx > Len(sorted_rows) THEN schedule
    ELSE LET row  == sorted_rows[idx]
             end  == WindowEnd(sorted_rows, idx, fallback_end)
             ages == {a \in row.from_age..(end - 1) : a < stop}
         IN ExpandLoop(sorted_rows, idx + 1, fallback_end, stop, kind,
                       [a \in ages |-> ValueAt(kind, row, a)] @@ schedule)

\* An expansion that starts each rule a year late, as range(from_age + 1, end)
ExpandContributionsAfterFirstYear(rows, start_age, retire_age) ==
    LET schedule == ExpandLoop(SortByFrom_age(rows), 1, ContributionsEnd(retire_age),
                               retire_age, "contributions", <<>>)
    IN [a \in DOMAIN schedule \ {rows[i].from_age : i \in 1..Len(rows)} |-> schedule[a]]

\* An expansion in which a rule keeps contributing until the next rule starts
ExpandContributionsUntilNext(rows, start_age, retire_age) ==
    ExpandLoop(SortByFrom_age([i \in 1..Len(rows) |-> [rows[i] EXCEPT !.years = NoneVal]]),
               1, ContributionsEnd(retire_age), retire_age, "contributions", <<>>)

_expand_contributions(rows, start_age, retire_age) ==
    ExpandLoop(SortByFrom_age(rows), 1, ContributionsEnd(retire_age), retire_age,
               "contributions", <<>>)

_expand_overrides(rows, start_age, retire_age) ==
    ExpandLoop(SortByFrom_age(rows), 1, OverridesEnd(retire_age), OverridesEnd(retire_age),
               "overrides", <<>>)

_expand_spending(rows, start_age, fallback_end) ==
    ExpandLoop(SortByFrom_age(rows), 1, fallback_end, fallback_end, "spending", <<>>)

\* A withdrawal split evenly over the accounts
ApplySpendingEvenly(balances, spending_amount) ==
    [idx \in 1..Len(balances) |->
        QSub(balances[idx], QDiv(spending_amount, QInt(Len(balances))))]

\* _apply_spending(balances, spending_amount): pro rata to the balances before
\* the withdrawal; all of it from the first account when the total is <= 0.
_apply_spending(balances, spending_amount) ==
    LET total_before == QSum(balances)
    IN IF QLe(total_before, QZero)
       THEN [balances EXCEPT ![1] = QSub(balances[1], spending_amount)]
       ELSE [idx \in 1..Len(balances) |->
                QSub(balances[idx],
                     QMul(QDiv(balances[idx], total_before), spending_amount))]

\* The body of the loop over ages of accumulate_plan, for one scenario and age:
\* contributions (working years), spending (retirement), growth per account.
AfterContributions(p, age, bals) ==
    IF age < p.retire_age
    THEN [idx \in 1..Len(bals) |->
            QAdd(bals[idx],
                 Get(_expand_contributions(p.accounts[idx].contributions,
                                           p.start_age, p.retire_age), age, QZero))]
    ELSE bals

\* A spending step that starts the year after retirement
AfterSpendingPastRetirement(p, age, bals) ==
    LET spending_amount == Get(_expand_spending(p.spending_schedule, p.start_age,
                                                SpendingEnd(p.retire_age)), age, QZero)
    IN IF age > p.retire_age /\ NonZero(spending_amount)
       THEN _apply_spending(bals, spending_amount)
       ELSE bals

AfterSpending(p, age, bals) ==
    LET spending_amount == Get(_expand_spending(p.spending_schedule, p.start_age,
                                                SpendingEnd(p.retire_age)), age, QZero)
    IN IF age >= p.retire_age /\ NonZero(spending_amount)
       THEN _apply_spending(bals, spending_amount)
       ELSE bals

\* nominal_rate = override if override else scenario.nominal_rate: an override
\* of rate 0 taken for no override
NominalRateUnlessZero(p, scenario, idx, age) ==
    LET overrides == _expand_overrides(p.accounts[idx].growth_overrides,
                                       p.start_age, p.retire_age)
    IN IF age \in DOMAIN overrides /\ NonZero(overrides[age])
       THEN overrides[age] ELSE scenario.nominal_rate

\* nominal_rate = override if override is not None else scenario.nominal_rate
NominalRate(p, scenario, idx, age) ==
    LET overrides == _expand_overrides(p.accounts[idx].growth_overrides,
                                       p.start_age, p.retire_age)
    IN IF age \in DOMAIN overrides THEN overrides[age] ELSE scenario.nominal_rate

\* A growth step that ignores the overrides
AfterGrowthAtScenarioRate(p, scenario, age, bals) ==
    [idx \in 1..Len(bals) |-> QMul(bals[idx], QAdd(QOne, scenario.nominal_rate))]

AfterGrowth(p, scenario, age, bals) ==
    [idx \in 1..Len(bals) |->
        QMul(bals[idx], QAdd(QOne, NominalRate(p, scenario, idx, age)))]

YearBalances(p, scenario, age, bals) ==
    AfterGrowth(p, scenario, age, AfterSpending(p, age, AfterContributions(p, age, bals)))

\* An entry whose real values are not deflated
YearEntryWithoutDeflation(p, scenario, age, base_year, bals, factor) ==
    [scenario |-> scenario.kind,
     age      |-> age,
     year     |-> base_year + (age - p.start_age),
     accounts |-> [idx \in 1..Len(bals) |->
                     [label   |-> p.accounts[idx].label,
                      nominal |-> bals[idx],
                      real    |-> bals[idx]]],
     total    |-> [nominal |-> QSum(bals), real |-> QSum(bals)]]

YearEntry(p, scenario, age, base_year, bals, factor) ==
    [scenario |-> scenario.kind,
     age      |-> age,
     year     |-> base_year + (age - p.start_age),
     accounts |-> [idx \in 1..Len(bals) |->
                     [label   |-> p.accounts[idx].label,
                      nominal |-> bals[idx],
                      real    |-> QDiv(bals[idx], factor)]],
     total    |-> [nominal |-> QSum(bals), real |-> QDiv(QSum(bals), factor)]]

InitialBalances(p) == [idx \in 1..Len(p.accounts) |-> p.accounts[idx].initial_balance]

\* The loop over ages of accumulate_plan for one scenario, from the given
\* age on: the total nominal balance of each entry.
RECURSIVE AccumulateFrom(_, _, _, _)
AccumulateFrom(p, scenario, age, bals) ==
    LET after == YearBalances(p, scenario, age, bals)
    IN IF age < p.retire_age
       THEN <<QSum(after)>> \o AccumulateFrom(p, scenario, age + 1, after)
       ELSE <<QSum(after)>>

\* total.nominal of the entries of accumulate_plan(p) for one scenario
ScenarioTotals(p, scenario) ==
    AccumulateFrom(p, scenario, p.start_age, InitialBalances(p))

-----------------------------------------------------------------------------
(* core/projection.py: scenario bands and tax helpers *)

Bands == {"min", "avg", "max"}

\* ScenarioValues(min = central - margin, avg = central, max = central + margin)
ScenarioValues(central, margin) ==
    [min |-> QSub(central, margin), avg |-> central, max |-> QAdd(central, margin)]

to_scenarios(a) ==
    [inflation |-> ScenarioValues(a.annualInflation, a.inflationErrorMargin),
     growth    |-> ScenarioValues(a.investmentReturnRate, a.investmentReturnErrorMargin)]

inflation_band(a) == ScenarioValues(a.annualInflation, a.inflationErrorMargin)
growth_band(a) == ScenarioValues(a.investmentReturnRate, a.investmentReturnErrorMargin)

_contribution_after_tax(raw, treatment, rate) ==
    IF treatment = "entry" THEN QMul(raw, QSub(QOne, rate)) ELSE raw

_effective_growth_rate(rate, treatment, tax_rate) ==
    IF treatment = "growth" THEN QMul(rate, QSub(QOne, tax_rate)) ELSE rate

\* denom = max(1.0 - tax_rate, 1e-6)
_withdrawal_gross_up(net_amount, treatment, tax_rate) ==
    IF treatment # "exit" THEN net_amount
    ELSE QDiv(net_amount, QMax(QSub(QOne, tax_rate), Q(1, 1000000)))

\* A withdrawal taxed in full, whatever the basis covers
CapitalGainsOnWholeWithdrawal(net_amount, basis, tax_rate) ==
    LET basis_used == QMin(net_amount, QMax(basis, QZero))
    IN [gross |-> QAdd(net_amount, QMul(net_amount, tax_rate)),
        new_basis |-> QMax(QZero, QSub(basis, basis_used))]

\* Returns (gross_withdrawal, new_basis)
_apply_capital_gains_withdrawal(net_amount, basis, tax_rate) ==
    LET basis_used == QMin(net_amount, QMax(basis, QZero))
        taxable    == QMax(QZero, QSub(net_amount, basis_used))
        tax        == QMul(taxable, tax_rate)
    IN [gross |-> QAdd(net_amount, tax), new_basis |-> QMax(QZero, QSub(basis, basis_used))]

\* round(x, 2): to the nearest cent, a tie to the even cent
Round2(q) ==
    LET whole == q.n \div q.d
        frac  == q.n - whole * q.d
        cents == (frac * 100) \div q.d
        rest  == frac * 100 - cents * q.d
        up    == 2 * rest > q.d \/ (2 * rest = q.d /\ cents % 2 = 1)
    IN Q(whole * 100 + cents + (IF up THEN 1 ELSE 0), 100)

-----------------------------------------------------------------------------
(* core/projection.py: project_savings_with_retirement *)

\* tax_treatment and tax_rate as the function normalises them
PsTreatment(req) == req.taxTreatment
PsTaxRate(req) == QMax(QZero, QMin(QOne, req.taxRate))

\* g_min, g_avg, g_max
PsGrowth(req) ==
    LET s == to_scenarios(req.growthAssumptions)
    IN [b \in Bands |-> _effective_growth_rate(s.growth[b], PsTreatment(req), PsTaxRate(req))]

\* The inflation each band's spending is computed with: the min band takes
\* inf_max, the avg band inf_avg, the max band inf_min.
PsSpendInflation(req) ==
    LET s == to_scenarios(req.growthAssumptions)
    IN [min |-> s.inflation.max, avg |-> s.inflation.avg, max |-> s.inflation.min]

\* A horizon that stops one year early, as range(currentAge, end_age) would
PsEndAgeExclusive(req) == req.retirementAge + Max(0, req.years_after_retirement) - 1

\* end_age = retirementAge + max(0, years_after_retirement)
PsEndAge(req) == req.retirementAge + Max(0, req.years_after_retirement)

\* intervals = _make_intervals(plan.breakpoints or [default], stop_age=retirementAge)
PsIntervals(req) ==
    _make_intervals(
        IF req.breakpoints # <<>> THEN req.breakpoints
        ELSE << [fromAge |-> req.currentAge, base |-> QZero, changeYoY |-> QZero,
                 years |-> Some(Max(0, req.retirementAge - req.currentAge))] >>,
        req.retirementAge)

\* spend0_min, spend0_avg, spend0_max
PsSpend0(req) ==
    LET years_to_ret == Max(0, req.retirementAge - req.currentAge)
    IN [b \in Bands |->
          IF QLt(QZero, req.retirementSpendingRaw)
          THEN QMul(req.retirementSpendingRaw,
                    QPow(QAdd(QOne, PsSpendInflation(req)[b]), years_to_ret))
          ELSE QZero]

\* A later year's spending derived again from the amount at retirement
NextSpendFromBase(base0, prev, infl, spending_change_yoy) ==
    IF QLe(base0, QZero) THEN QZero
    ELSE IF IsNone(prev) THEN base0
    ELSE QMul(base0, QAdd(QAdd(QOne, infl), spending_change_yoy))

next_spend(base0, prev, infl, spending_change_yoy) ==
    IF QLe(base0, QZero) THEN QZero
    ELSE IF IsNone(prev) THEN base0
    ELSE QMul(Val(prev), QAdd(QAdd(QOne, infl), spending_change_yoy))

\* contrib of a working year: the active rule's amount after entry tax
PsContribution(req, age) ==
    LET rule == _active_row(PsIntervals(req), age)
    IN IF IsNone(rule) THEN QZero
       ELSE _contribution_after_tax(
                QMul(Val(rule).base,
                     QPow(QAdd(QOne, Val(rule).changeYoY), age - Val(rule).fromAge)),
                PsTreatment(req), PsTaxRate(req))

\* A working year that adds the contribution before growth is applied
WorkingYearContributionFirst(bal, g, contrib) == QMul(QAdd(bal, contrib), QAdd(QOne, g))

\* A working year that forgets the contribution
WorkingYearGrowthOnly(bal, g, contrib) == QMul(bal, QAdd(QOne, g))

\* A working year that multiplies the balance by the rate alone
WorkingYearRateOnly(bal, g, contrib) == QAdd(QMul(bal, g), contrib)

\* bal *= (1 + g); bal += contrib
WorkingYearBalance(bal, g, contrib) == QAdd(QMul(bal, QAdd(QOne, g)), contrib)

\* A retirement year that grows the balance before it subtracts the spending
RetirementYearGrowthFirst(bal, spend_taxed, g) == QSub(QMul(bal, QAdd(QOne, g)), spend_taxed)

\* start = bal - spend_taxed; bal = start * (1 + g)
RetirementYearBalance(bal, spend_taxed, g) == QMul(QSub(bal, spend_taxed), QAdd(QOne, g))

\* One iteration of the loop over ages: the new balances, bases and previous
\* spendings, with the iteration's locals.
PsYear(req, age, bal, basis, prev_spend) ==
    LET g == PsGrowth(req)
    IN IF age < req.retirementAge
       THEN LET contrib == PsContribution(req, age)
            IN [bal         |-> [b \in Bands |-> WorkingYearBalance(bal[b], g[b], contrib)],
                basis       |-> [b \in Bands |-> QAdd(basis[b], contrib)],
                prev_spend  |-> prev_spend,
                contrib     |-> contrib,
                spend       |-> [b \in Bands |-> QZero],
                spend_taxed |-> [b \in Bands |-> QZero],
                starting    |-> bal]
       ELSE LET spend == [b \in Bands |->
                            next_spend(PsSpend0(req)[b], prev_spend[b],
                                       PsSpendInflation(req)[b], req.spending_change_yoy)]
                cg == [b \in Bands |->
                         _apply_capital_gains_withdrawal(spend[b], basis[b], PsTaxRate(req))]
                spend_taxed == [b \in Bands |->
                                  IF PsTreatment(req) = "growth" THEN cg[b].gross
                                  ELSE _withdrawal_gross_up(spend[b], PsTreatment(req),
                                                            PsTaxRate(req))]
            IN [bal         |-> [b \in Bands |->
                                   RetirementYearBalance(bal[b], spend_taxed[b], g[b])],
                basis       |-> IF PsTreatment(req) = "growth"
                                THEN [b \in Bands |-> cg[b].new_basis] ELSE basis,
                prev_spend  |-> [b \in Bands |-> Some(spend[b])],
                contrib     |-> QZero,
                spend       |-> spend,
                spend_taxed |-> spend_taxed,
                starting    |-> bal]

\* The loop over range(currentAge, end_age + 1) from the given age on: the
\* state after the iteration of end_age.
RECURSIVE PsLoop(_, _, _, _, _)
PsLoop(req, age, bal, basis, prev_spend) ==
    LET y == PsYear(req, age, bal, basis, prev_spend)
    IN IF age < PsEndAge(req)
       THEN PsLoop(req, age + 1, y.bal, y.basis, y.prev_spend)
       ELSE y

\* rows[-1].savings of project_savings_with_retirement(req)
PsFinalSavings(req) ==
    LET start == [b \in Bands |-> req.currentSavings]
        y == PsLoop(req, req.currentAge, start, start, [b \in Bands |-> NoneVal])
    IN [b \in Bands |-> Round2(y.bal[b])]

YearRowWithSpending(req, age, year0, y) ==
    [age          |-> age,
     year         |-> year0 + (age - req.currentAge),
     contribution |-> Round2(y.contrib),
     growth       |-> PsGrowth(req),
     spending     |-> [b \in Bands |-> Round2(y.spend[b])],
     savings      |-> [b \in Bands |-> Round2(y.bal[b])]]

-----------------------------------------------------------------------------
(* core/projection.py: rates_for_scenario, simulate_scenario, project_plan *)

\* A pairing that takes the same end of both bands
RatesSameEnd(assumptions, scenario) ==
    [scenario       |-> scenario,
     inflation      |-> inflation_band(assumptions)[scenario],
     nominal_growth |-> growth_band(assumptions)[scenario]]

rates_for_scenario(assumptions, scenario) ==
    LET inf == inflation_band(assumptions)
        gr  == growth_band(assumptions)
    IN IF scenario = "min"
       THEN [scenario |-> scenario, inflation |-> inf.max, nominal_growth |-> gr.min]
       ELSE IF scenario = "max"
       THEN [scenario |-> scenario, inflation |-> inf.min, nominal_growth |-> gr.max]
       ELSE [scenario |-> scenario, inflation |-> inf.avg, nominal_growth |-> gr.avg]

get_effective_spending_items(plan, years_after_retirement) ==
    IF plan.spending_items # <<>> THEN plan.spending_items
    ELSE << [name |-> "Default retirement spending",
             from_age |-> plan.retirement_age,
             years |-> Some(years_after_retirement),
             annual_spending_today |-> plan.desired_retirement_spending_today] >>

\* acc_end_age: from_age + years, or the retirement age when years is None
AccEndAge(plan, acc) ==
    IF ~IsNone(acc.years) THEN acc.from_age + Val(acc.years) ELSE plan.retirement_age

\* contrib: the sum over the accounts active at this age
SsContribution(plan, age) ==
    QSum([i \in 1..Len(plan.savings_accounts) |->
            LET acc == plan.savings_accounts[i]
            IN IF acc.from_age <= age /\ age < AccEndAge(plan, acc)
               THEN QMul(acc.base_contribution,
                         QPow(QAdd(QOne, acc.contribution_growth), age - acc.from_age))
               ELSE QZero])

\* The spending items active at this age (indices), in retirement years only
SsActiveItems(plan, items, age) ==
    IF age >= plan.retirement_age
    THEN {idx \in 1..Len(items) :
            /\ ~(age < items[idx].from_age)
            /\ ~(~IsNone(items[idx].years) /\ age >= items[idx].from_age + Val(items[idx].years))}
    ELSE {}

\* nominal_spend of an active item
SsNominalSpend(plan, item, idx, age, infl, prev_spend_by_item) ==
    IF age = item.from_age
    THEN QMul(item.annual_spending_today,
              QPow(QAdd(QOne, infl), item.from_age - plan.current_age))
    ELSE QMul(Get(prev_spend_by_item, idx, QZero), QAdd(QOne, infl))

\* balance = (starting - spend) * (1 + rates.nominal_growth); balance += contrib
EndOfYearBalance(starting, spend, nominal_growth, contrib) ==
    QAdd(QMul(QSub(starting, spend), QAdd(QOne, nominal_growth)), contrib)

\* One iteration of the loop over ages of simulate_scenario
SsYear(plan, yar, rates, age, balance, prev_spend_by_item) ==
    LET items  == get_effective_spending_items(plan, yar)
        active == SsActiveItems(plan, items, age)
        nominal == [idx \in active |->
                      SsNominalSpend(plan, items[idx], idx, age, rates.inflation,
                                     prev_spend_by_item)]
        spend   == QSum([idx \in 1..Len(items) |->
                           IF idx \in active THEN nominal[idx] ELSE QZero])
        contrib == SsContribution(plan, age)
    IN [row |-> [age              |-> age,
                 year_index       |-> age - plan.current_age,
                 starting_balance |-> balance,
                 contributions    |-> contrib,
                 spending         |-> spend,
                 ending_balance   |->
                     EndOfYearBalance(balance, spend, rates.nominal_growth, contrib)],
        prev_spend_by_item |-> nominal @@ prev_spend_by_item]

\* Starting total balance: top-level savings plus all account initial balances
SsStartingBalance(plan) ==
    QAdd(plan.current_savings,
         QSum([i \in 1..Len(plan.savings_accounts) |-> plan.savings_accounts[i].initial_balance]))

\* project_plan runs the scenarios in this order
ScenarioOrder == <<"min", "avg", "max">>

\* The two assertions of project_plan, over the zipped positions
RowsAligned(runs) ==
    \A i \in 1..Min(Len(runs[1]), Min(Len(runs[2]), Len(runs[3]))) :
       /\ runs[1][i].age = runs[2][i].age /\ runs[2][i].age = runs[3][i].age
       /\ runs[1][i].year_index = runs[2][i].year_index
       /\ runs[2][i].year_index = runs[3][i].year_index

\* An aggregation that loses the last simulated year
YearlyRowsWithoutLast(runs) ==
    LET n == Min(Len(runs[1]), Min(Len(runs[2]), Len(runs[3]))) - 1
    IN [i \in 1..n |->
          [age              |-> runs[1][i].age,
           year_index       |-> runs[1][i].year_index,
           starting_balance |-> [b \in Bands |-> runs[2][i].starting_balance],
           contributions    |-> [b \in Bands |-> runs[2][i].contributions],
           spending         |-> [b \in Bands |-> runs[2][i].spending],
           ending_balance   |-> [b \in Bands |-> runs[2][i].ending_balance]]]

\* zip(rows_min, rows_avg, rows_max) into YearlyRow objects
YearlyRows(runs) ==
    LET n == Min(Len(runs[1]), Min(Len(runs[2]), Len(runs[3])))
        Of(i, field) == [min |-> runs[1][i][field], avg |-> runs[2][i][field],
                         max |-> runs[3][i][field]]
    IN [i \in 1..n |->
          [age              |-> runs[1][i].age,
           year_index       |-> runs[1][i].year_index,
           starting_balance |-> Of(i, "starting_balance"),
           contributions    |-> Of(i, "contributions"),
           spending         |-> Of(i, "spending"),
           ending_balance   |-> Of(i, "ending_balance")]]

-----------------------------------------------------------------------------
(* The interval helpers applied to one rule list *)

\* Optional[int] durations: None, or an int in -1 .. MaxYears
YearsOpt == {NoneVal} \cup {Some(y) : y \in -1..MaxYears}
RuleAges == FirstAge..(FirstAge + AgeSpan)

\* ContributionBreakpoint values (no field constraints in the source)
Breakpoints ==
    [fromAge : RuleAges, base : {QInt(100)}, changeYoY : {QZero}, years : YearsOpt]

\* The same rule as a ContributionRow of the multi-account engine
AsContributionRow(bp) ==
    [from_age |-> bp.fromAge, base |-> bp.base, growth_rate |-> bp.changeYoY,
     years |-> bp.years]

NoValidation == [errors |-> <<>>, warnings |-> <<>>]

\* The engines that take no part in a specification stay idle.
IdleIntervals ==
    /\ iv_pc = "idle"
    /\ iv_rows = <<>>
    /\ iv_stop = 0
    /\ iv_intervals = <<>>
    /\ iv_validation = NoValidation
    /\ iv_age = NoneVal
    /\ iv_active = NoneVal

IdlePlan ==
    /\ ap_pc = "idle"
    /\ ap_plan = <<>>
    /\ ap_prepared = NoneVal
    /\ ap_validation = NoValidation
    /\ ap_entries = <<>>
    /\ ap_scenario = 0
    /\ ap_age = 0
    /\ ap_balances = <<>>
    /\ ap_inflation_factor = QOne
    /\ ap_response = NoneVal

InitIntervalRules ==
    /\ iv_pc = "input"
    /\ iv_rows \in SeqUpTo(Breakpoints, MaxRows)
    /\ iv_stop = FirstAge + AgeSpan
    /\ iv_intervals = <<>>
    /\ iv_validation = NoValidation
    /\ iv_age = NoneVal
    /\ iv_active = NoneVal

\* intervals = _make_intervals(rows, stop_age)
MakeIntervals ==
    /\ iv_pc = "input"
    /\ iv_intervals' = _make_intervals(iv_rows, iv_stop)
    /\ iv_pc' = "built"
    /\ UNCHANGED <<iv_rows, iv_stop, iv_validation, iv_age, iv_active>>
    /\ UNCHANGED <<ap_vars, ps_vars, ss_vars>>

\* errors, warnings = _validate_rows(rows, fallback_end, label)
ValidateRows ==
    /\ iv_pc = "built"
    /\ iv_validation' =
         _validate_rows([i \in 1..Len(iv_rows) |-> AsContributionRow(iv_rows[i])],
                        iv_stop, "rules")
    /\ iv_pc' = "validated"
    /\ UNCHANGED <<iv_rows, iv_stop, iv_intervals, iv_age, iv_active>>
    /\ UNCHANGED <<ap_vars, ps_vars, ss_vars>>

\* rule = _active_row(intervals, age)
ActiveRow ==
    /\ iv_pc = "validated"
    /\ \E age \in (FirstAge - 1)..(FirstAge + AgeSpan + 1) :
         /\ iv_age' = Some(age)
         /\ iv_active' = _active_row(iv_intervals, age)
    /\ iv_pc' = "looked_up"
    /\ UNCHANGED <<iv_rows, iv_stop, iv_intervals, iv_validation>>
    /\ UNCHANGED <<ap_vars, ps_vars, ss_vars>>

NextIntervals == MakeIntervals \/ ValidateRows \/ ActiveRow

-----------------------------------------------------------------------------
(* One request to the multi-account engine *)

BaseYear == 2024

\* Optional[int] = Field(None, ge=1, le=80): absent, the shortest window and
\* the longest one
PlanYears == {NoneVal, Some(1), Some(MaxYears)}

StartAge == FirstAge
RetireAge == FirstAge + AgeSpan + 1

ContributionRows ==
    [from_age : RuleAges, base : {QInt(100)}, growth_rate : {QZero}, years : PlanYears]

\* fromAge may precede the plan's startAge (Field(ge=10)): a rule over the
\* year before the first simulated age, alone or followed by a rule that
\* starts a year after it.
EarlyContributionRows ==
    LET early == [from_age |-> StartAge - 1, base |-> QInt(100), growth_rate |-> QZero,
                  years |-> Some(1)]
        later == [from_age |-> StartAge + 1, base |-> QInt(100), growth_rate |-> QZero,
                  years |-> NoneVal]
    IN {<<early>>, <<early, later>>}
SecondAccountRows ==
    [from_age : {StartAge, StartAge + 1}, base : {QInt(40)}, growth_rate : {QZero},
     years : {NoneVal, Some(MaxYears)}]
GrowthOverrideRows ==
    [from_age : {StartAge + 1, RetireAge + 1}, rate : {QZero}, years : {NoneVal, Some(1)}]
\* An override above every scenario's rate, open-ended from the first age
HighOverrideRows ==
    {<< [from_age |-> StartAge, rate |-> QOne, years |-> NoneVal] >>}
SpendingRows ==
    [from_age : {RetireAge, RetireAge + 1}, annual_spending : {QInt(200)},
     years : {NoneVal, Some(1)}]

PlanAccounts(n, c1, o1, c2, ira) ==
    SubSeq(<< [label |-> "401k", initial_balance |-> IF n = 1 THEN QInt(1000) ELSE QInt(600),
               contributions |-> c1, growth_overrides |-> o1],
              [label |-> "IRA", initial_balance |-> ira,
               contributions |-> c2, growth_overrides |-> <<>>] >>, 1, n)

\* The scenarios of a plan: the default one, or the single scenario of
\* test_real_nominal_alignment whose nominal rate is the plan's inflation rate
PlanInflation == Q(1, 4)
AvgScenario == [kind |-> "avg", nominal_rate |-> Q(1, 2)]
FlatScenario == [kind |-> "flat", nominal_rate |-> PlanInflation]

\* Plans that passed Plan.model_validate: retire_age > start_age, at least one
\* scenario, and at most MaxPlanRules declared rules in all. The second
\* account's balance may be negative (Account.initial_balance has no bound):
\* with it the total is zero or, under a large withdrawal, overdrawn, and with
\* the larger debt the debt outgrows an overridden first account. The plan's
\* own initial_balance is the accounts' total, or is left at its default 0. The
\* flat scenario is run on plans without account contributions, the high
\* override on single-account plans without other rules.
InitPlanRequest ==
    /\ ap_pc = "request"
    /\ \E sc \in {AvgScenario, FlatScenario} :
       \E n \in 0..2,
          c1 \in SeqUpTo(ContributionRows, MaxPlanRules) \cup EarlyContributionRows :
       \E o1 \in SeqUpTo(GrowthOverrideRows, MaxPlanRules - Len(c1)) \cup HighOverrideRows :
       \E c2 \in SeqUpTo(SecondAccountRows, MaxPlanRules - Len(c1) - Len(o1)) :
       \E sp \in SeqUpTo(SpendingRows, MaxPlanRules - Len(c1) - Len(o1) - Len(c2)) :
       \E srs \in {QZero, QInt(300), QInt(2000)}, ac \in {QZero, QInt(100)},
          ib \in {QZero, QInt(1000)}, ira \in {QInt(400), QInt(-400), QInt(-500)} :
          /\ n = 0 => (c1 = <<>> /\ o1 = <<>>)
          /\ n < 2 => c2 = <<>>
          /\ n > 0 => ac = QZero
          /\ ib = QZero =>
                \/ ira = QInt(-400) /\ c2 = <<>>
                \/ /\ n = 1 /\ ira = QInt(400) /\ c1 = <<>> /\ o1 = <<>> /\ sp = <<>>
                   /\ srs = QZero /\ sc = AvgScenario
          /\ ira = QInt(-400) => (n = 2 /\ c1 = <<>>)
          /\ srs = QInt(2000) <=> (ira = QInt(-400) /\ ib = QInt(1000) /\ sp = <<>>)
          /\ ira = QInt(-500) =>
                (n = 2 /\ c1 = <<>> /\ c2 = <<>> /\ Len(o1) = 1 /\ Len(sp) = 1
                 /\ ib = QInt(1000) /\ srs = QZero /\ sc = AvgScenario)
          /\ o1 \in HighOverrideRows =>
                (n = 1 /\ c1 = <<>> /\ sp = <<>> /\ sc = AvgScenario)
          /\ sc = FlatScenario =>
                (c1 = <<>> /\ c2 = <<>> /\ Len(o1) + Len(sp) <= 1 /\ ira = QInt(400))
          /\ ap_plan = [start_age |-> StartAge,
                        retire_age |-> RetireAge,
                        inflation_rate |-> PlanInflation,
                        initial_balance |-> ib,
                        annual_contribution |-> ac,
                        accounts |-> PlanAccounts(n, c1, o1, c2, ira),
                        spending_schedule |-> sp,
                        scenarios |-> <<sc>>,
                        starting_retirement_spending |-> srs]
    /\ ap_prepared = NoneVal
    /\ ap_validation = NoValidation
    /\ ap_entries = <<>>
    /\ ap_scenario = 0
    /\ ap_age = 0
    /\ ap_balances = <<>>
    /\ ap_inflation_factor = QOne
    /\ ap_response = NoneVal

\* prepared, validation = prepare_plan(plan)
PreparePlan ==
    /\ ap_pc = "request"
    /\ \E update_hits_field \in BOOLEAN :
         LET r == prepare_plan(ap_plan, update_hits_field)
         IN /\ ap_prepared' = Some(r.prepared)
            /\ ap_validation' = r.validation
    /\ ap_pc' = "prepared"
    /\ UNCHANGED <<ap_plan, ap_entries, ap_scenario, ap_age, ap_balances,
                   ap_inflation_factor, ap_response>>
    /\ UNCHANGED <<iv_vars, ps_vars, ss_vars>>

\* accumulations raises PlanValidationError(errors) when validation found an
\* error; the handler answers 400 with the error list and no rows.
RejectPlan ==
    /\ ap_pc = "prepared"
    /\ ap_validation.errors # <<>>
    /\ ap_response' = Some([status |-> 400, error |-> ap_validation.errors, rows |-> <<>>])
    /\ ap_pc' = "rejected"
    /\ UNCHANGED <<ap_plan, ap_prepared, ap_validation, ap_entries, ap_scenario, ap_age,
                   ap_balances, ap_inflation_factor>>
    /\ UNCHANGED <<iv_vars, ps_vars, ss_vars>>

\* Otherwise accumulations calls accumulate_plan(prepared, base_year), which
\* starts the first scenario from the accounts' initial balances.
BeginAccumulate ==
    /\ ap_pc = "prepared"
    /\ ap_validation.errors = <<>>
    /\ ap_scenario' = 1
    /\ ap_age' = Val(ap_prepared).start_age
    /\ ap_balances' = InitialBalances(Val(ap_prepared))
    /\ ap_inflation_factor' = QOne
    /\ ap_pc' = "simulating"
    /\ UNCHANGED <<ap_plan, ap_prepared, ap_validation, ap_entries, ap_response>>
    /\ UNCHANGED <<iv_vars, ps_vars, ss_vars>>

\* One iteration of the loop over ages of accumulate_plan (for the current
\* scenario), then the loop control: next age, next scenario, or return.
AccumulateYear ==
    /\ ap_pc = "simulating"
    /\ LET p == Val(ap_prepared)
           scenario == p.scenarios[ap_scenario]
           bals == YearBalances(p, scenario, ap_age, ap_balances)
       IN /\ ap_entries' = Append(ap_entries,
                YearEntry(p, scenario, ap_age, BaseYear, bals, ap_inflation_factor))
          /\ IF ap_age < p.retire_age
             THEN /\ ap_age' = ap_age + 1
                  /\ ap_balances' = bals
                  /\ ap_inflation_factor' =
                        QMul(ap_inflation_factor, QAdd(QOne, p.inflation_rate))
                  /\ UNCHANGED <<ap_scenario, ap_pc>>
             ELSE IF ap_scenario < Len(p.scenarios)
             THEN /\ ap_scenario' = ap_scenario + 1
                  /\ ap_age' = p.start_age
                  /\ ap_balances' = InitialBalances(p)
                  /\ ap_inflation_factor' = QOne
                  /\ UNCHANGED ap_pc
             ELSE /\ ap_pc' = "done"
                  /\ ap_balances' = bals
                  /\ UNCHANGED <<ap_scenario, ap_age, ap_inflation_factor>>
    /\ UNCHANGED <<ap_plan, ap_prepared, ap_validation, ap_response>>
    /\ UNCHANGED <<iv_vars, ps_vars, ss_vars>>

\* The handler answers 200 with the entries.
RespondOk ==
    /\ ap_pc = "done"
    /\ ap_response = NoneVal
    /\ ap_response' = Some([status |-> 200, error |-> <<>>, rows |-> ap_entries])
    /\ UNCHANGED <<ap_pc, ap_plan, ap_prepared, ap_validation, ap_entries, ap_scenario,
                   ap_age, ap_balances, ap_inflation_factor>>
    /\ UNCHANGED <<iv_vars, ps_vars, ss_vars>>

NextPlan == PreparePlan \/ RejectPlan \/ BeginAccumulate \/ AccumulateYear \/ RespondOk

-----------------------------------------------------------------------------
(* One call of project_savings_with_retirement *)

TaxTreatments == {"none", "entry", "growth", "exit"}

\* GrowthAssumptions with and without margins
Assumptions ==
    [annualInflation : {Q(1, 2)}, inflationErrorMargin : {QZero, Q(1, 2)},
     investmentReturnRate : {QOne}, investmentReturnErrorMargin : {QZero, Q(1, 2)}]

\* Breakpoints of the call: they start at the current age or a year later and
\* run to the next rule, for one year, or for MaxYears + 1 years.
PsBreakpoints ==
    [fromAge : {FirstAge, FirstAge + 1}, base : {QInt(100)}, changeYoY : {QZero},
     years : {NoneVal, Some(1), Some(MaxYears + 1)}]

NoYear ==
    [bal |-> <<>>, basis |-> <<>>, prev_spend |-> <<>>, contrib |-> QZero,
     spend |-> <<>>, spend_taxed |-> <<>>, starting |-> <<>>]

IdleProjection ==
    /\ ps_pc = "idle"
    /\ ps_req = <<>>
    /\ ps_age = 0
    /\ ps_bal = <<>>
    /\ ps_basis = <<>>
    /\ ps_prev_spend = <<>>
    /\ ps_year = NoYear
    /\ ps_rows = <<>>

\* GrowthAssumptions with no investment return (tests/test_zero_growth.py)
ZeroGrowthAssumptions ==
    [annualInflation |-> Q(1, 2), inflationErrorMargin |-> QZero,
     investmentReturnRate |-> QZero, investmentReturnErrorMargin |-> QZero]

\* GrowthAssumptions and breakpoints that are all zero
\* (tests/test_projection_zeroes.py)
ZeroAssumptions ==
    [annualInflation |-> QZero, inflationErrorMargin |-> QZero,
     investmentReturnRate |-> QZero, investmentReturnErrorMargin |-> QZero]

ZeroBreakpoints ==
    [fromAge : {FirstAge, FirstAge + 1}, base : {QZero}, changeYoY : {QZero},
     years : {NoneVal, Some(1), Some(MaxYears + 1)}]

\* The arguments of one call of project_savings_with_retirement
ProjectionCall(ret, savings, raw, a, bps, tt, yar, scy) ==
    [currentAge |-> FirstAge,
     retirementAge |-> ret,
     currentSavings |-> savings,
     retirementSpendingRaw |-> raw,
     growthAssumptions |-> a,
     breakpoints |-> bps,
     taxTreatment |-> tt,
     taxRate |-> IF tt = "none" THEN QZero ELSE Q(1, 2),
     years_after_retirement |-> yar,
     spending_change_yoy |-> scy]

\* The call of run_projection("entry") in tests/test_tax_treatment.py
TaxTreatmentTestCall ==
    [currentAge |-> 30,
     retirementAge |-> 31,
     currentSavings |-> QInt(1000),
     retirementSpendingRaw |-> QInt(1000),
     growthAssumptions |-> [annualInflation |-> QZero, inflationErrorMargin |-> QZero,
                            investmentReturnRate |-> Q(1, 10),
                            investmentReturnErrorMargin |-> QZero],
     breakpoints |-> <<>>,
     taxTreatment |-> "entry",
     taxRate |-> Q(1, 5),
     years_after_retirement |-> 0,
     spending_change_yoy |-> QZero]

InitProjectionCall ==
    /\ ps_pc = "call"
    /\ \/ \E ret \in {FirstAge + 1, FirstAge + AgeSpan}, tt \in TaxTreatments,
             raw \in {QZero, QInt(100)}, scy \in {QZero, Q(1, 2)},
             a \in Assumptions, bps \in SeqUpTo(PsBreakpoints, 2),
             yar \in {0, MaxYearsAfter} :
             /\ raw = QZero => scy = QZero
             /\ ps_req = ProjectionCall(ret, QInt(1000), raw, a, bps, tt, yar, scy)
       \/ ps_req = TaxTreatmentTestCall
       \/ \E ret \in {FirstAge + 1, FirstAge + AgeSpan}, tt \in {"none", "entry"},
             raw \in {QZero, QInt(100)}, bps \in SeqUpTo(PsBreakpoints, 2),
             yar \in {0, MaxYearsAfter} :
             ps_req = ProjectionCall(ret, QInt(1000), raw, ZeroGrowthAssumptions, bps,
                                     tt, yar, QZero)
       \/ \E ret \in {FirstAge + 1, FirstAge + AgeSpan}, tt \in TaxTreatments,
             savings \in {QZero, QInt(1000)}, bps \in SeqUpTo(ZeroBreakpoints, 1),
             yar \in {0, MaxYearsAfter} :
             ps_req = ProjectionCall(ret, savings, QZero, ZeroAssumptions, bps,
                                     tt, yar, QZero)
       \/ \E a \in Assumptions, yar \in {0, MaxYearsAfter} :
             ps_req = ProjectionCall(FirstAge + 1, QZero, QInt(100), a, <<>>, "none",
                                     yar, QZero)
    /\ ps_age = 0
    /\ ps_bal = <<>>
    /\ ps_basis = <<>>
    /\ ps_prev_spend = <<>>
    /\ ps_year = NoYear
    /\ ps_rows = <<>>

\* The code before the loop: starting balances and bases, no previous spending.
StartProjection ==
    /\ ps_pc = "call"
    /\ ps_age' = ps_req.currentAge
    /\ ps_bal' = [b \in Bands |-> ps_req.currentSavings]
    /\ ps_basis' = [b \in Bands |-> ps_req.currentSavings]
    /\ ps_prev_spend' = [b \in Bands |-> NoneVal]
    /\ ps_pc' = "running"
    /\ UNCHANGED <<ps_req, ps_year, ps_rows>>
    /\ UNCHANGED <<iv_vars, ap_vars, ss_vars>>

\* One iteration of the loop over range(currentAge, end_age + 1); the function
\* returns the rows after the iteration of end_age.
ProjectYear ==
    /\ ps_pc = "running"
    /\ LET y == PsYear(ps_req, ps_age, ps_bal, ps_basis, ps_prev_spend)
       IN /\ ps_bal' = y.bal
          /\ ps_basis' = y.basis
          /\ ps_prev_spend' = y.prev_spend
          /\ ps_year' = y
          /\ ps_rows' = Append(ps_rows, YearRowWithSpending(ps_req, ps_age, BaseYear, y))
    /\ IF ps_age < PsEndAge(ps_req)
       THEN ps_age' = ps_age + 1 /\ UNCHANGED ps_pc
       ELSE ps_pc' = "done" /\ UNCHANGED ps_age
    /\ UNCHANGED ps_req
    /\ UNCHANGED <<iv_vars, ap_vars, ss_vars>>

NextProjection == StartProjection \/ ProjectYear

-----------------------------------------------------------------------------
(* One call of project_plan *)

SavingsAccounts ==
    [name : {"Savings #1"}, initial_balance : {QInt(500)},
     from_age : {FirstAge, FirstAge + 1}, years : {NoneVal, Some(1), Some(MaxYears + 1)},
     base_contribution : {QInt(100)}, contribution_growth : {QZero}]

SpendingItems ==
    { <<>>,
      << [name |-> "Retirement Spending #1", from_age |-> FirstAge + 1, years |-> NoneVal,
          annual_spending_today |-> QInt(100)] >>,
      << [name |-> "Retirement Spending #1", from_age |-> FirstAge + 2, years |-> Some(1),
          annual_spending_today |-> QInt(100)] >> }

NoRates == [scenario |-> "", inflation |-> QZero, nominal_growth |-> QZero]

IdleScenario ==
    /\ ss_pc = "idle"
    /\ ss_plan = <<>>
    /\ ss_yar = 0
    /\ ss_k = 0
    /\ ss_rates = NoRates
    /\ ss_age = 0
    /\ ss_balance = QZero
    /\ ss_prev_spend_by_item = <<>>
    /\ ss_rows = <<>>
    /\ ss_runs = <<>>
    /\ ss_result = <<>>

InitProjectPlanCall ==
    /\ ss_pc = "call"
    /\ \E ret \in {FirstAge + 1, FirstAge + AgeSpan}, a \in Assumptions,
          accs \in SeqUpTo(SavingsAccounts, 2), items \in SpendingItems,
          desired \in {QZero, QInt(100)} :
          /\ items # <<>> => desired = QZero
          /\ ss_plan = [current_age |-> FirstAge,
                        retirement_age |-> ret,
                        current_savings |-> QInt(1000),
                        desired_retirement_spending_today |-> desired,
                        growth |-> a,
                        savings_accounts |-> accs,
                        spending_items |-> items]
    /\ ss_yar \in {0, MaxYearsAfter}
    /\ ss_k = 1
    /\ ss_rates = NoRates
    /\ ss_age = 0
    /\ ss_balance = QZero
    /\ ss_prev_spend_by_item = <<>>
    /\ ss_rows = <<>>
    /\ ss_runs = <<>>
    /\ ss_result = <<>>

\* simulate_scenario(plan, scenario, years_after_retirement) up to its loop
BeginScenario ==
    /\ ss_pc = "call"
    /\ ss_rates' = rates_for_scenario(ss_plan.growth, ScenarioOrder[ss_k])
    /\ ss_age' = ss_plan.current_age
    /\ ss_balance' = SsStartingBalance(ss_plan)
    /\ ss_prev_spend_by_item' = <<>>
    /\ ss_rows' = <<>>
    /\ ss_pc' = "running"
    /\ UNCHANGED <<ss_plan, ss_yar, ss_k, ss_runs, ss_result>>
    /\ UNCHANGED <<iv_vars, ap_vars, ps_vars>>

\* One iteration of the loop over range(start_age, end_age + 1); after the
\* iteration of end_age the rows return to project_plan.
SimulateYear ==
    /\ ss_pc = "running"
    /\ LET y == SsYear(ss_plan, ss_yar, ss_rates, ss_age, ss_balance, ss_prev_spend_by_item)
           rows == Append(ss_rows, y.row)
       IN /\ ss_balance' = y.row.ending_balance
          /\ ss_prev_spend_by_item' = y.prev_spend_by_item
          /\ ss_rows' = rows
          /\ IF ss_age < ss_plan.retirement_age + ss_yar
             THEN /\ ss_age' = ss_age + 1
                  /\ UNCHANGED <<ss_pc, ss_k, ss_runs>>
             ELSE /\ ss_runs' = Append(ss_runs, rows)
                  /\ ss_pc' = IF ss_k < Len(ScenarioOrder) THEN "call" ELSE "zip"
                  /\ ss_k' = IF ss_k < Len(ScenarioOrder) THEN ss_k + 1 ELSE ss_k
                  /\ UNCHANGED ss_age
    /\ UNCHANGED <<ss_plan, ss_yar, ss_rates, ss_result>>
    /\ UNCHANGED <<iv_vars, ap_vars, ps_vars>>

\* project_plan combines the three row lists; a failed assertion ends the call
CombineRows ==
    /\ ss_pc = "zip"
    /\ IF RowsAligned(ss_runs)
       THEN ss_result' = YearlyRows(ss_runs) /\ ss_pc' = "done"
       ELSE ss_result' = <<>> /\ ss_pc' = "AssertionError"
    /\ UNCHANGED <<ss_plan, ss_yar, ss_k, ss_rates, ss_age, ss_balance,
                   ss_prev_spend_by_item, ss_rows, ss_runs>>
    /\ UNCHANGED <<iv_vars, ap_vars, ps_vars>>

NextScenario == BeginScenario \/ SimulateYear \/ CombineRows

-----------------------------------------------------------------------------
(* The specifications *)

InitIntervals == InitIntervalRules /\ IdlePlan /\ IdleProjection /\ IdleScenario
InitPlan == IdleIntervals /\ InitPlanRequest /\ IdleProjection /\ IdleScenario
InitProjection == IdleIntervals /\ IdlePlan /\ InitProjectionCall /\ IdleScenario
InitScenario == IdleIntervals /\ IdlePlan /\ IdleProjection /\ InitProjectPlanCall

SpecIntervals == InitIntervals /\ [][NextIntervals]_vars
SpecPlan == InitPlan /\ [][NextPlan]_vars
SpecProjection == InitProjection /\ [][NextProjection]_vars
SpecScenario == InitScenario /\ [][NextScenario]_vars

\* The two single-balance engines
InitEngines == InitProjection \/ InitScenario
NextEngines == NextProjection \/ NextScenario
SpecEngines == InitEngines /\ [][NextEngines]_vars

\* Every engine
Init == InitIntervals \/ InitPlan \/ InitProjection \/ InitScenario
Next == NextIntervals \/ NextPlan \/ NextProjection \/ NextScenario
Spec == Init /\ [][Next]_vars

-----------------------------------------------------------------------------
(* Properties of the interval helpers *)

Covers(iv, age) == iv.start <= age /\ age < iv.end
CoveringOf(intervals, age) == {i \in 1..Len(intervals) : Covers(intervals[i], age)}
ProbeAges == (FirstAge - 2)..(FirstAge + AgeSpan + MaxYears + 2)

iv_rules == [i \in 1..Len(iv_rows) |-> AsContributionRow(iv_rows[i])]

\* The window end as section 4.1 states it: fromAge + years when years is
\* given, else the next rule's fromAge (the stop age for the last rule), then
\* clamped to the stop age.
StatedEnd(rows_sorted, i, stop_age) ==
    LET next_start == IF i < Len(rows_sorted) THEN rows_sorted[i + 1].fromAge ELSE stop_age
        raw == IF IsNone(rows_sorted[i].years) THEN next_start
               ELSE rows_sorted[i].fromAge + Val(rows_sorted[i].years)
    IN IF raw > stop_age THEN stop_age ELSE raw

\* Rule lists in which every explicit duration is at least one year
RegularYears(rows) == \A i \in 1..Len(rows) : IsNone(rows[i].years) \/ Val(rows[i].years) >= 1

\* C5: the window of each rule is [fromAge, end) with end = fromAge + years
\* when years is given, else the next rule's fromAge (the stop age for the last
\* rule), then clamped to the stop age; both for the intervals built by
\* _make_intervals and for the windows of _validate_rows and the _expand_*
\* functions. Stated for rule lists whose explicit durations are >= 1.
C5_WindowEndClamped ==
    (iv_pc # "input" /\ RegularYears(iv_rows)) =>
        /\ \A i \in 1..Len(iv_intervals) :
              /\ iv_intervals[i].start = SortByFromAge(iv_rows)[i].fromAge
              /\ iv_intervals[i].end = StatedEnd(SortByFromAge(iv_rows), i, iv_stop)
        /\ \A i \in 1..Len(iv_rules) :
              /\ Windows(iv_rules, iv_stop)[i].start = SortByFromAge(iv_rows)[i].fromAge
              /\ Windows(iv_rules, iv_stop)[i].end =
                    StatedEnd(SortByFromAge(iv_rows), i, iv_stop)

\* C6: every interval returned by _make_intervals has end > start.
C6_IntervalsNonEmpty ==
    iv_pc # "input" =>
        \A i \in 1..Len(iv_intervals) : iv_intervals[i].end > iv_intervals[i].start

\* C7: _active_row returns the row of the first interval covering the age
\* (half-open: start <= age < end), None exactly when no interval covers it;
\* and a rule-set whose validation reports no error has at most one interval
\* covering any age.
C7_ActiveRowFirstMatch ==
    /\ iv_pc = "looked_up" =>
         LET age == Val(iv_age)
             covering == CoveringOf(iv_intervals, age)
         IN /\ IsNone(iv_active) <=> covering = {}
            /\ covering # {} =>
                 \E i \in covering :
                    /\ iv_active = Some(iv_intervals[i].row)
                    /\ \A j \in 1..(i - 1) : j \notin covering
                    /\ age # iv_intervals[i].end
            /\ \A i \in 1..Len(iv_intervals) :
                 (age = iv_intervals[i].end /\ covering \subseteq {i}) => IsNone(iv_active)
    /\ (iv_pc \in {"validated", "looked_up"} /\ iv_validation.errors = <<>>) =>
         \A age \in ProbeAges :
            /\ Cardinality(CoveringOf(iv_intervals, age)) <= 1
            /\ Cardinality(CoveringOf(Windows(iv_rules, iv_stop), age)) <= 1

\* C7 witness: two validated rules without error, the age is the end of the
\* first interval and the lookup returns the rule of the second.
C7_Witness ==
    /\ iv_pc = "looked_up"
    /\ iv_validation.errors = <<>>
    /\ Len(iv_intervals) >= 2
    /\ Val(iv_age) = iv_intervals[1].end
    /\ iv_active = Some(iv_intervals[2].row)
    /\ iv_intervals[2].row # iv_intervals[1].row

-----------------------------------------------------------------------------
(* Properties of validation and of the prepare-then-simulate pipeline *)

\* The window end of a rule as section 4.1 states it, for rules of the
\* multi-account engine (years is None or >= 1 there).
StatedWindowEnd(sorted_rows, i, stop_age) ==
    LET next_start == IF i < Len(sorted_rows) THEN sorted_rows[i + 1].from_age ELSE stop_age
        raw == IF IsNone(sorted_rows[i].years) THEN next_start
               ELSE sorted_rows[i].from_age + Val(sorted_rows[i].years)
    IN IF raw > stop_age THEN stop_age ELSE raw

\* The rule-sets of a prepared plan, in the order prepare_plan validates them
RECURSIVE AccountRuleSets(_, _)
AccountRuleSets(p, i) ==
    IF i > Len(p.accounts) THEN <<>>
    ELSE << [label |-> p.accounts[i].label \o " contributions", account |-> i,
             kind |-> "contributions",
             rows |-> SortByFrom_age(p.accounts[i].contributions), stop |-> p.retire_age],
            [label |-> p.accounts[i].label \o " growth overrides", account |-> i,
             kind |-> "growth overrides",
             rows |-> SortByFrom_age(p.accounts[i].growth_overrides),
             stop |-> p.retire_age + 1] >> \o AccountRuleSets(p, i + 1)

RuleSets(p) ==
    AccountRuleSets(p, 1) \o
    << [label |-> "spending schedule", account |-> 0, kind |-> "spending",
        rows |-> SortByFrom_age(p.spending_schedule), stop |-> p.retire_age + 60] >>

Prepared == ap_pc \in {"prepared", "rejected", "simulating", "done"}
Elems(seq) == {seq[i] : i \in 1..Len(seq)}
HasOverlapError(errs, label, from_age) ==
    \E e \in Elems(errs) : e.label = label /\ e.kind = "overlap ages" /\ e.a = from_age

\* C1: a contribution rule that starts before the end of the previous rule's
\* window (in fromAge order) gets the plan rejected: the error list holds a
\* message with the rule-set label "<account> contributions", the word overlap
\* and the two ages, and no row is produced.
C1_OverlapRejected ==
    Prepared =>
        \A rs \in Elems(RuleSets(Val(ap_prepared))) :
            rs.kind = "contributions" =>
                \A k \in 2..Len(rs.rows) :
                    rs.rows[k].from_age < StatedWindowEnd(rs.rows, k - 1, rs.stop) =>
                        LET msg == [label |-> Val(ap_prepared).accounts[rs.account].label
                                                \o " contributions",
                                    kind  |-> "overlap ages",
                                    a     |-> rs.rows[k].from_age,
                                    b     |-> StatedWindowEnd(rs.rows, k - 1, rs.stop)]
                        IN /\ msg \in Elems(ap_validation.errors)
                           /\ ap_pc \in {"prepared", "rejected"}
                           /\ ap_entries = <<>>
                           /\ ~IsNone(ap_response) =>
                                /\ Val(ap_response).status = 400
                                /\ msg \in Elems(Val(ap_response).error)
                                /\ Val(ap_response).rows = <<>>

\* C1 witness: the request of test_overlap_validation_returns_400 in small: two
\* overlapping contribution rules on "401k", answered 400 without rows.
C1_Witness ==
    /\ ap_pc = "rejected"
    /\ ~IsNone(ap_response)
    /\ Val(ap_response).rows = <<>>
    /\ Len(ap_plan.accounts) = 1
    /\ Len(ap_plan.accounts[1].contributions) = 2
    /\ \E e \in Elems(Val(ap_response).error) :
          e.label = "401k contributions" /\ e.kind = "overlap ages" /\ e.a < e.b

\* All errors of all rule-sets, each rule-set validated on its own
RECURSIVE AllErrors(_, _)
AllErrors(sets, i) ==
    IF i > Len(sets) THEN <<>>
    ELSE _validate_rows(sets[i].rows, sets[i].stop, sets[i].label).errors
         \o AllErrors(sets, i + 1)

\* C2: strict prepare-then-simulate. With at least one validation error no
\* simulation step runs and the answer has zero rows and the complete error
\* list; rows exist only for plans without error, and an answer with rows has
\* all of them (one per scenario and age).
C2_PrepareThenSimulate ==
    Prepared =>
        LET p == Val(ap_prepared)
            errs == AllErrors(RuleSets(p), 1)
        IN /\ errs # <<>> =>
                /\ ap_pc \in {"prepared", "rejected"}
                /\ ap_entries = <<>>
                /\ ~IsNone(ap_response) =>
                     /\ Val(ap_response).status = 400
                     /\ Val(ap_response).rows = <<>>
                     /\ Val(ap_response).error = errs
           /\ (ap_entries # <<>> \/ ap_pc \in {"simulating", "done"}) => errs = <<>>
           /\ (~IsNone(ap_response) /\ errs = <<>>) =>
                /\ Val(ap_response).status = 200
                /\ Len(Val(ap_response).rows) =
                      Len(p.scenarios) * (p.retire_age - p.start_age + 1)

\* C2 witness: a rejected request whose errors come from two rule-sets
C2_Witness ==
    /\ ap_pc = "rejected"
    /\ ~IsNone(ap_response)
    /\ Val(ap_response).rows = <<>>
    /\ \E e1, e2 \in Elems(Val(ap_response).error) : e1.label # e2.label

\* Ages shared by the windows of rules j and k of a rule-set
SharedAges(rs, j, k) ==
    {a \in rs.rows[j].from_age..(StatedWindowEnd(rs.rows, j, rs.stop) - 1) :
        rs.rows[k].from_age <= a /\ a < StatedWindowEnd(rs.rows, k, rs.stop)}

\* C3: validation reports every overlap: each rule whose window shares an age
\* with the window of an earlier rule (in fromAge order) has an overlap error
\* in the list _validate_rows returns. Stated for rule lists whose explicit
\* durations are >= 1.
C3_EveryOverlapReported ==
    (iv_pc \in {"validated", "looked_up"} /\ RegularYears(iv_rows)) =>
        LET rs == [rows |-> SortByFrom_age(iv_rules), stop |-> iv_stop]
        IN \A k \in 2..Len(rs.rows) :
              (\E j \in 1..(k - 1) : SharedAges(rs, j, k) # {}) =>
                  HasOverlapError(iv_validation.errors, "rules", rs.rows[k].from_age)

\* Entries of a scenario/age already recorded
EntryAt(kind, age) ==
    {i \in 1..Len(ap_entries) : ap_entries[i].scenario = kind /\ ap_entries[i].age = age}

\* Nominal balance of account idx before the iteration that recorded entry i
BalanceBefore(p, i, idx) ==
    IF ap_entries[i].age = p.start_age THEN p.accounts[idx].initial_balance
    ELSE ap_entries[i - 1].accounts[idx].nominal

\* Gaps (k, a): age a lies strictly between the window of rule k - 1 and rule k
GapAges(rs) ==
    {<<k, a>> \in (2..Len(rs.rows)) \X (FirstAge..(FirstAge + AgeSpan + 2)) :
        StatedWindowEnd(rs.rows, k - 1, rs.stop) <= a /\ a < rs.rows[k].from_age}

\* C4: a gap between two consecutive windows yields a warning and no error,
\* the plan is still simulated, and at the ages of the gap nothing is
\* contributed: the account only grows by its rate.
C4_GapIsWarningOnly ==
    Prepared =>
        LET p == Val(ap_prepared)
        IN /\ \A e \in Elems(ap_validation.errors) : e.kind # "gap ages"
           /\ \A rs \in Elems(RuleSets(p)) :
                /\ \A k \in 2..Len(rs.rows) :
                      rs.rows[k].from_age > StatedWindowEnd(rs.rows, k - 1, rs.stop) =>
                         [label |-> rs.label, kind |-> "gap ages",
                          a |-> StatedWindowEnd(rs.rows, k - 1, rs.stop),
                          b |-> rs.rows[k].from_age] \in Elems(ap_validation.warnings)
                /\ rs.kind = "contributions" =>
                      \A g \in GapAges(rs) : \A i \in 1..Len(ap_entries) :
                         ap_entries[i].age = g[2] =>
                            ap_entries[i].accounts[rs.account].nominal =
                               QMul(BalanceBefore(p, i, rs.account),
                                    QAdd(QOne, NominalRate(p, p.scenarios[1], rs.account, g[2])))
           \* only gaps (every window non-empty, no rule starting inside the
           \* previous window): no error, so the plan is simulated
           /\ (\A rs \in Elems(RuleSets(p)) : \A k \in 1..Len(rs.rows) :
                  /\ StatedWindowEnd(rs.rows, k, rs.stop) > rs.rows[k].from_age
                  /\ k > 1 => rs.rows[k].from_age >= StatedWindowEnd(rs.rows, k - 1, rs.stop))
              => /\ ap_validation.errors = <<>>
                 /\ ap_pc # "rejected"
                 /\ ~IsNone(ap_response) => Val(ap_response).status = 200

\* C4 witness: a plan with a gap warning simulated to the end, with a row for
\* an age inside the gap.
C4_Witness ==
    /\ ap_pc = "done"
    /\ ~IsNone(ap_response)
    /\ Val(ap_response).status = 200
    /\ \E w \in Elems(ap_validation.warnings) :
          /\ w.label = "401k contributions"
          /\ w.kind = "gap ages"
          /\ \E i \in 1..Len(ap_entries) : ap_entries[i].age = w.a /\ w.a < w.b

-----------------------------------------------------------------------------
(* Properties of the single-balance engines *)

\* The pairing as section 4.2 states it: min takes inflation + margin with
\* growth - margin, avg the central values, max inflation - margin with
\* growth + margin.
StatedInflation(a, band) ==
    IF band = "min" THEN QAdd(a.annualInflation, a.inflationErrorMargin)
    ELSE IF band = "max" THEN QSub(a.annualInflation, a.inflationErrorMargin)
    ELSE a.annualInflation

StatedGrowth(a, band) ==
    IF band = "min" THEN QSub(a.investmentReturnRate, a.investmentReturnErrorMargin)
    ELSE IF band = "max" THEN QAdd(a.investmentReturnRate, a.investmentReturnErrorMargin)
    ELSE a.investmentReturnRate

\* Nominal spending of a band at a retirement age: the amount in today's money
\* inflated to retirement, then raised each year by inflation plus the extra
\* change.
StatedSpending(req, band, age) ==
    IF QLt(QZero, req.retirementSpendingRaw)
    THEN QMul(QMul(req.retirementSpendingRaw,
                   QPow(QAdd(QOne, StatedInflation(req.growthAssumptions, band)),
                        req.retirementAge - req.currentAge)),
              QPow(QAdd(QAdd(QOne, StatedInflation(req.growthAssumptions, band)),
                        req.spending_change_yoy),
                   age - req.retirementAge))
    ELSE QZero

\* simulate_scenario has fetched its rates
RatesFetched == ss_pc \in {"running", "zip", "done"} \/ (ss_pc = "call" /\ ss_k > 1)

\* C8: scenario pairing is worst-with-worst and best-with-best, in the rates
\* rates_for_scenario returns and in the inflation behind each band's spending
\* in project_savings_with_retirement.
C8_ScenarioPairing ==
    /\ RatesFetched =>
          /\ ss_rates.inflation = StatedInflation(ss_plan.growth, ss_rates.scenario)
          /\ ss_rates.nominal_growth = StatedGrowth(ss_plan.growth, ss_rates.scenario)
    /\ \A i \in 1..Len(ss_runs) : ss_runs[i] # <<>> /\ ss_pc # "idle" =>
          \A j \in 1..Len(ss_runs[i]) :
             ss_runs[i][j].ending_balance =
                QAdd(QMul(QSub(ss_runs[i][j].starting_balance, ss_runs[i][j].spending),
                          QAdd(QOne, StatedGrowth(ss_plan.growth, ScenarioOrder[i]))),
                     ss_runs[i][j].contributions)
    /\ \A i \in 1..Len(ps_rows) :
          ps_rows[i].age >= ps_req.retirementAge =>
             \A b \in Bands :
                /\ ps_rows[i].spending[b] = Round2(StatedSpending(ps_req, b, ps_rows[i].age))
                /\ i = Len(ps_rows) =>
                      ps_year.spend[b] = StatedSpending(ps_req, b, ps_rows[i].age)

\* C8 witness: the min scenario of a plan with both margins, after a year
\* with spending.
C8_Witness ==
    /\ ss_pc = "running"
    /\ ss_rates.scenario = "min"
    /\ ss_plan.growth.inflationErrorMargin # QZero
    /\ ss_plan.growth.investmentReturnErrorMargin # QZero
    /\ QLt(ss_plan.growth.annualInflation, ss_rates.inflation)
    /\ QLt(ss_rates.nominal_growth, ss_plan.growth.investmentReturnRate)
    /\ \E i \in 1..Len(ss_rows) : ss_rows[i].spending # QZero

\* The effective growth rate of a band: the band's nominal growth, reduced by
\* the tax on gains under the growth treatment.
StatedEffectiveGrowth(req, band) ==
    IF req.taxTreatment = "growth"
    THEN QMul(StatedGrowth(req.growthAssumptions, band), QSub(QOne, PsTaxRate(req)))
    ELSE StatedGrowth(req.growthAssumptions, band)

\* (starting balance - gross withdrawal) x (1 + growth) + contribution
CanonicalEnding(starting, withdrawal, growth, contribution) ==
    QAdd(QMul(QSub(starting, withdrawal), QAdd(QOne, growth)), contribution)

C10_NoContributionFromRetirement ==
    /\ \A i \in 1..Len(ps_rows) :
          ps_rows[i].age >= ps_req.retirementAge => ps_rows[i].contribution = QZero
    /\ (ps_rows # <<>> /\ ps_rows[Len(ps_rows)].age >= ps_req.retirementAge) =>
          ps_year.contrib = QZero
    /\ \A i \in 1..Len(ss_rows) :
          ss_rows[i].age >= ss_plan.retirement_age => ss_rows[i].contributions = QZero
    /\ Prepared =>
          LET p == Val(ap_prepared)
          IN \A idx \in 1..Len(p.accounts) :
                /\ \A a \in DOMAIN _expand_contributions(p.accounts[idx].contributions,
                                                         p.start_age, p.retire_age) :
                      a < p.retire_age
                /\ \A i \in 1..Len(ap_entries) :
                      ap_entries[i].age >= p.retire_age =>
                         ap_entries[i].accounts[idx].nominal =
                            QMul(AfterSpending(p, ap_entries[i].age,
                                    [k \in 1..Len(p.accounts) |-> BalanceBefore(p, i, k)])[idx],
                                 QAdd(QOne, NominalRate(p, p.scenarios[1], idx,
                                                        ap_entries[i].age)))

\* An iteration of the loop of project_savings_with_retirement has run in this step
YearProjected == ps_pc = "running" /\ ps_rows' # ps_rows

\* C11: spending recurrence of project_savings_with_retirement. In each band
\* the year's spending is 0 below retirementAge; at retirementAge it is
\* retirementSpendingRaw x (1 + band inflation)^(retirementAge - currentAge);
\* at a later age it is the previous year's unrounded spending x (1 + band
\* inflation + spendingChangeYoY); the row records it rounded to cents; with
\* zero band inflation and zero drift it is the same as the year before.
C11_SpendingRecurrence ==
    [][YearProjected =>
         \A b \in Bands :
            LET infl == StatedInflation(ps_req.growthAssumptions, b)
                stated ==
                    IF ps_age < ps_req.retirementAge THEN QZero
                    ELSE IF ps_age = ps_req.retirementAge
                    THEN QMul(ps_req.retirementSpendingRaw,
                              QPow(QAdd(QOne, infl),
                                   ps_req.retirementAge - ps_req.currentAge))
                    ELSE QMul(ps_year.spend[b],
                              QAdd(QAdd(QOne, infl), ps_req.spending_change_yoy))
            IN /\ ps_year'.spend[b] = stated
               /\ ps_rows'[Len(ps_rows')].spending[b] = Round2(stated)
               /\ (ps_age > ps_req.retirementAge /\ infl = QZero
                      /\ ps_req.spending_change_yoy = QZero) =>
                     ps_year'.spend[b] = ps_year.spend[b]]_vars

\* C11 witness: the second year after retirement, where the spending of the
\* min band has grown from last year's value and that of the max band, with
\* zero inflation and zero drift, has stayed the same.
C11_Witness ==
    /\ ps_pc \in {"running", "done"}
    /\ ps_rows # <<>>
    /\ ps_rows[Len(ps_rows)].age = ps_req.retirementAge + 2
    /\ ps_req.spending_change_yoy = QZero
    /\ StatedInflation(ps_req.growthAssumptions, "max") = QZero
    /\ QLt(QZero, ps_year.spend["max"])
    /\ ps_year.spend["max"] = ps_req.retirementSpendingRaw
    /\ QLt(PsSpend0(ps_req)["min"], ps_year.spend["min"])

\* C12: horizon and indexing. project_savings_with_retirement returns exactly
\* one row for each age from currentAge to retirementAge + yearsAfterRetirement
\* inclusive, in increasing order: row i (from 0) has age currentAge + i and
\* year baseYear + i; with yearsAfterRetirement = 0 the last row is the
\* retirement age itself, with that year's spending.
C12_HorizonAndIndexing ==
    LET last_age == ps_req.retirementAge + ps_req.years_after_retirement
    IN ps_pc \in {"running", "done"} =>
          /\ \A i \in 1..Len(ps_rows) :
                /\ ps_rows[i].age = ps_req.currentAge + (i - 1)
                /\ ps_rows[i].year = BaseYear + (i - 1)
                /\ ps_rows[i].age <= last_age
          /\ ps_pc = "done" =>
                /\ Len(ps_rows) = last_age - ps_req.currentAge + 1
                /\ ps_rows[Len(ps_rows)].age = last_age
                /\ ps_req.years_after_retirement = 0 =>
                      /\ ps_rows[Len(ps_rows)].age = ps_req.retirementAge
                      /\ \A b \in Bands :
                            ps_rows[Len(ps_rows)].spending[b] =
                               Round2(StatedSpending(ps_req, b, ps_req.retirementAge))

\* C12 witness: a finished call with yearsAfterRetirement = 0 whose last row
\* is the retirement year, with spending.
C12_Witness ==
    /\ ps_pc = "done"
    /\ ps_req.years_after_retirement = 0
    /\ ps_rows[Len(ps_rows)].age = ps_req.retirementAge
    /\ QLt(QZero, ps_rows[Len(ps_rows)].spending["avg"])

\* C13: scenario alignment. The min, avg and max runs of simulate_scenario
\* have the same length and the same (age, year_index) at every position, so
\* the assertions of project_plan never fail and project_plan returns exactly
\* one aggregated row for each simulated age, none dropped by the zip.
C13_ScenarioAlignment ==
    /\ ss_pc # "AssertionError"
    /\ \A i \in 1..Len(ss_runs) : \A k \in 1..Len(ss_runs) :
          /\ Len(ss_runs[i]) = Len(ss_runs[k])
          /\ \A j \in 1..Len(ss_runs[i]) :
                /\ ss_runs[i][j].age = ss_runs[k][j].age
                /\ ss_runs[i][j].year_index = ss_runs[k][j].year_index
    /\ ss_pc = "done" =>
          /\ Len(ss_runs) = 3
          /\ Len(ss_result) = Len(ss_runs[1])
          /\ Len(ss_result) = ss_plan.retirement_age + ss_yar - ss_plan.current_age + 1
          /\ \A j \in 1..Len(ss_result) :
                /\ ss_result[j].age = ss_plan.current_age + (j - 1)
                /\ ss_result[j].year_index = j - 1
                /\ \A i \in 1..3 : ss_runs[i][j].age = ss_result[j].age

\* C13 witness: project_plan has returned the rows of three runs that differ
\* in their balances, over a horizon that goes past retirement.
C13_Witness ==
    /\ ss_pc = "done"
    /\ ss_yar > 0
    /\ Len(ss_result) > 1
    /\ ss_result[Len(ss_result)].age = ss_plan.retirement_age + ss_yar
    /\ ss_result[Len(ss_result)].ending_balance["min"] #
          ss_result[Len(ss_result)].ending_balance["max"]

\* The withdrawal need of the year of entry i, and the balances of that year
\* before and after _apply_spending (the recorded balance without its growth)
NeedAt(p, i) ==
    Get(_expand_spending(p.spending_schedule, p.start_age, SpendingEnd(p.retire_age)),
        ap_entries[i].age, QZero)

BeforeWithdrawal(p, i) == [k \in 1..Len(p.accounts) |-> BalanceBefore(p, i, k)]

AfterWithdrawal(p, i) ==
    [k \in 1..Len(p.accounts) |->
        QDiv(ap_entries[i].accounts[k].nominal,
             QAdd(QOne, NominalRate(p, p.scenarios[1], k, ap_entries[i].age)))]

\* A retirement year of accumulate_plan with a withdrawal
WithdrawalYear(p, i) == ap_entries[i].age >= p.retire_age /\ NonZero(NeedAt(p, i))

\* C14: multi-account withdrawal allocation (_apply_spending). When the total
\* balance is > 0 each account i is reduced by (balance_i / total) x need,
\* computed from the balances before the withdrawal, so the total falls by
\* exactly need; when the total is <= 0 the whole need is subtracted from the
\* first account and every other account is unchanged. (Stated of the entry
\* just recorded: every entry is the last one in the state that follows its
\* year.)
C14_WithdrawalAllocation ==
    Prepared =>
       LET p == Val(ap_prepared)
       IN \A i \in {Len(ap_entries)} \ {0} : WithdrawalYear(p, i) =>
             LET need   == NeedAt(p, i)
                 before == BeforeWithdrawal(p, i)
                 after  == AfterWithdrawal(p, i)
                 total  == QSum(before)
             IN IF QLt(QZero, total)
                THEN /\ \A k \in 1..Len(before) :
                           after[k] = QSub(before[k],
                                           QMul(QDiv(before[k], total), need))
                     /\ QSum(after) = QSub(total, need)
                ELSE /\ after[1] = QSub(before[1], need)
                     /\ \A k \in 2..Len(before) : after[k] = before[k]

\* C14 witness: a withdrawal from two accounts with different positive
\* balances.
C14_Witness ==
    /\ Prepared
    /\ \E i \in 1..Len(ap_entries) :
          /\ WithdrawalYear(Val(ap_prepared), i)
          /\ Len(Val(ap_prepared).accounts) = 2
          /\ QLt(QZero, BeforeWithdrawal(Val(ap_prepared), i)[1])
          /\ QLt(BeforeWithdrawal(Val(ap_prepared), i)[1],
                 BeforeWithdrawal(Val(ap_prepared), i)[2])

\* A withdrawal when the total balance is not positive, from two accounts
FallbackWithdrawal ==
    /\ Prepared
    /\ \E i \in 1..Len(ap_entries) :
          /\ WithdrawalYear(Val(ap_prepared), i)
          /\ Len(Val(ap_prepared).accounts) = 2
          /\ QLe(QSum(BeforeWithdrawal(Val(ap_prepared), i)), QZero)
          /\ BeforeWithdrawal(Val(ap_prepared), i)[2] # QZero

\* C15: capital-gains withdrawal, used for the tax treatment "growth". For a
\* net need n >= 0 and a basis b the basis consumed is min(n, max(b, 0)), the
\* taxable part is n minus the basis consumed, the gross withdrawal is
\* n + taxable x rate and the new basis is the old basis minus the amount
\* consumed; a working year adds its after-tax contribution to the basis; the
\* basis is never negative, and a withdrawal fully covered by the basis is
\* grossed up by nothing.
C15_CapitalGainsWithdrawal ==
    [][(YearProjected /\ ps_req.taxTreatment = "growth") =>
         \A b \in Bands :
            LET n        == ps_year'.spend[b]
                consumed == QMin(n, QMax(ps_basis[b], QZero))
                taxable  == QSub(n, consumed)
            IN /\ QLe(QZero, ps_basis[b]) /\ QLe(QZero, ps_basis'[b])
               /\ IF ps_age < ps_req.retirementAge
                  THEN ps_basis'[b] = QAdd(ps_basis[b], ps_year'.contrib)
                  ELSE /\ QLe(QZero, n)
                       /\ ps_year'.spend_taxed[b] =
                             QAdd(n, QMul(taxable, PsTaxRate(ps_req)))
                       /\ ps_basis'[b] = QSub(ps_basis[b], consumed)
                       /\ QLe(n, ps_basis[b]) => ps_year'.spend_taxed[b] = n]_vars

\* C15 witness: under the growth treatment, a withdrawal that used up what was
\* left of a basis built from savings and a contribution, and was taxed on
\* the rest.
C15_Witness ==
    /\ ps_pc \in {"running", "done"}
    /\ ps_rows # <<>>
    /\ ps_req.taxTreatment = "growth"
    /\ ps_basis["min"] = QZero
    /\ QLt(ps_year.spend["min"], ps_year.spend_taxed["min"])
    /\ QLt(ps_year.spend_taxed["min"],
           QMul(ps_year.spend["min"], QAdd(QOne, PsTaxRate(ps_req))))
    /\ \E i \in 1..Len(ps_rows) : QLt(QZero, ps_rows[i].contribution)

\* The same call under another tax treatment
WithTreatment(req, treatment) == [req EXCEPT !.taxTreatment = treatment]

\* C16: tax ordering. For runs of project_savings_with_retirement that are
\* identical except for the tax treatment (same nominal growth, same tax rate,
\* one withdrawal), the final balances satisfy entry >= growth >= exit.
C16_TaxOrdering ==
    (/\ ps_pc = "done"
     /\ ps_req.taxTreatment = "entry"
     /\ ps_req.years_after_retirement = 0
     /\ QLt(QZero, ps_req.retirementSpendingRaw)) =>
       \A b \in Bands :
          /\ QLe(PsFinalSavings(WithTreatment(ps_req, "growth"))[b],
                 ps_rows[Len(ps_rows)].savings[b])
          /\ QLe(PsFinalSavings(WithTreatment(ps_req, "exit"))[b],
                 PsFinalSavings(WithTreatment(ps_req, "growth"))[b])

\* What the loop returns is what the run recorded
FinalSavingsAgree ==
    ps_pc = "done" => ps_rows[Len(ps_rows)].savings = PsFinalSavings(ps_req)

\* C17: concrete scenario. With currentAge = 30, retirementAge = 31,
\* currentSavings = 1000, growth 10% with zero margin, inflation 0,
\* retirementSpendingRaw = 1000, yearsAfterRetirement = 0, no breakpoints,
\* taxTreatment = entry and taxRate = 20%, the function returns two rows (ages
\* 30 and 31) and the average ending balance of the last row is 110.0.
C17_ConcreteScenario ==
    (/\ ps_pc = "done"
     /\ ps_req.currentAge = 30 /\ ps_req.retirementAge = 31
     /\ ps_req.currentSavings = QInt(1000)
     /\ ps_req.growthAssumptions.investmentReturnRate = Q(1, 10)
     /\ ps_req.growthAssumptions.investmentReturnErrorMargin = QZero
     /\ ps_req.growthAssumptions.annualInflation = QZero
     /\ ps_req.retirementSpendingRaw = QInt(1000)
     /\ ps_req.years_after_retirement = 0
     /\ ps_req.breakpoints = <<>>
     /\ ps_req.taxTreatment = "entry" /\ ps_req.taxRate = Q(1, 5)) =>
       /\ Len(ps_rows) = 2
       /\ ps_rows[1].age = 30 /\ ps_rows[2].age = 31
       /\ ps_rows[2].savings["avg"] = QInt(110)

\* C17 witness: the call of the scenario has returned.
C17_Witness ==
    /\ ps_pc = "done"
    /\ ps_req = TaxTreatmentTestCall
    /\ Len(ps_rows) = 2
    /\ ps_rows[1].savings["avg"] = QInt(1100)

\* currentSavings plus the contributions of rows 1..i made below retirementAge
SavingsPlusContributions(i) ==
    QAdd(ps_req.currentSavings,
         QSum([j \in 1..i |-> IF ps_rows[j].age < ps_req.retirementAge
                              THEN ps_rows[j].contribution ELSE QZero]))

NoGrowthNoTaxNoSpending ==
    /\ ps_pc \in {"running", "done"}
    /\ \A b \in Bands : StatedGrowth(ps_req.growthAssumptions, b) = QZero
    /\ ps_req.taxTreatment = "none"
    /\ ps_req.retirementSpendingRaw = QZero

\* C18: no-growth additivity. With nominal growth 0 in every band, no tax and
\* no spending, the ending balance recorded at each age a below retirementAge
\* is currentSavings plus the contributions of ages currentAge..a, the balance
\* at retirementAge is currentSavings plus all contributions made strictly
\* before retirementAge, and the balance never decreases from row to row.
C18_NoGrowthAdditivity ==
    NoGrowthNoTaxNoSpending =>
       \A i \in 1..Len(ps_rows) : \A b \in Bands :
          /\ ps_rows[i].age <= ps_req.retirementAge =>
                ps_rows[i].savings[b] = SavingsPlusContributions(i)
          /\ i > 1 => QLe(ps_rows[i - 1].savings[b], ps_rows[i].savings[b])

\* C18 witness: a finished call without growth, tax and spending in which two
\* working years had a contribution.
C18_Witness ==
    /\ NoGrowthNoTaxNoSpending
    /\ ps_pc = "done"
    /\ Len(ps_rows) > 2
    /\ QLt(QZero, ps_rows[1].contribution) /\ QLt(QZero, ps_rows[2].contribution)
    /\ ps_rows[3].age = ps_req.retirementAge
    /\ ps_rows[3].savings["avg"] =
          QAdd(ps_req.currentSavings,
               QAdd(ps_rows[1].contribution, ps_rows[2].contribution))

AllInputsZero ==
    /\ ps_pc \in {"running", "done"}
    /\ ps_req.growthAssumptions = ZeroAssumptions
    /\ \A k \in 1..Len(ps_req.breakpoints) : ps_req.breakpoints[k].base = QZero
    /\ ps_req.retirementSpendingRaw = QZero

\* C19: zero-input invariant. When all inflation and growth rates and margins
\* are 0, every contribution base is 0 and retirement spending is 0, every row
\* has contribution 0, spending 0 in all three bands and savings equal to
\* currentSavings in all three bands, at every age of the horizon.
C19_ZeroInputs ==
    AllInputsZero =>
       \A i \in 1..Len(ps_rows) :
          /\ ps_rows[i].contribution = QZero
          /\ \A b \in Bands :
                /\ ps_rows[i].spending[b] = QZero
                /\ ps_rows[i].savings[b] = ps_req.currentSavings

\* C19 witness: a finished call with all inputs zero but the savings, past
\* the retirement age.
C19_Witness ==
    /\ AllInputsZero
    /\ ps_pc = "done"
    /\ ps_req.currentSavings # QZero
    /\ ps_req.breakpoints # <<>>
    /\ ps_rows[Len(ps_rows)].age > ps_req.retirementAge
    /\ ps_rows[Len(ps_rows)].savings["min"] = ps_req.currentSavings

\* The prepared plan with the base of rule k of account idx raised by delta
WithRaisedBase(p, idx, k, delta) ==
    [p EXCEPT !.accounts[idx].contributions[k].base = QAdd(@, delta)]

\* The totals, age by age, of the plan with the larger base
RicherTotals(p, idx, k) ==
    ScenarioTotals(WithRaisedBase(p, idx, k, QInt(100)), p.scenarios[1])

\* The first simulated age at which rule k of account idx contributes, and
\* the end of its window; the rule contributes when the first lies before the
\* end.
FirstContributionAge(p, idx, k) == Max(p.accounts[idx].contributions[k].from_age, p.start_age)

ContributionWindowEnd(p, idx, k) ==
    LET rows == p.accounts[idx].contributions
        later == {rows[j].from_age : j \in {j \in 1..Len(rows) :
                                            rows[j].from_age > rows[k].from_age}}
        next_start == IF later = {} THEN p.retire_age
                      ELSE CHOOSE a \in later : \A c \in later : a <= c
        end == IF IsNone(rows[k].years) THEN next_start
               ELSE rows[k].from_age + Val(rows[k].years)
    IN Min(end, p.retire_age)

Contributes(p, idx, k) == FirstContributionAge(p, idx, k) < ContributionWindowEnd(p, idx, k)

\* What the loop returns is what the run recorded
ScenarioTotalsAgree ==
    ap_pc = "done" =>
       ScenarioTotals(Val(ap_prepared), Val(ap_prepared).scenarios[1]) =
          [i \in 1..Len(ap_entries) |-> ap_entries[i].total.nominal]

\* C20: monotonic contribution effect. Of two plans that differ only in the
\* base amount of one contribution rule, the plan with the larger base has a
\* strictly larger balance in every year from that rule's first age onward,
\* in particular a strictly larger final total, in every scenario.
C20_MonotonicContribution ==
    ap_pc = "done" =>
       LET p == Val(ap_prepared)
       IN \A idx \in 1..Len(p.accounts) :
          \A k \in 1..Len(p.accounts[idx].contributions) :
             \A richer \in {RicherTotals(p, idx, k)} :
                \A i \in 1..Len(ap_entries) :
                   ap_entries[i].age >= p.accounts[idx].contributions[k].from_age =>
                      QLt(ap_entries[i].total.nominal, richer[i])

\* C20 as amended: when the rule has a simulated working age in its window,
\* the plan with the larger base has a strictly larger total balance at every
\* age from the rule's first such age up to the last working age, and at the
\* retirement age too when that year has no withdrawal or the plan has one
\* account; a rule with no simulated working age in its window changes no
\* balance.
C20_MonotonicWhileContributing ==
    ap_pc = "done" =>
       LET p == Val(ap_prepared)
       IN \A idx \in 1..Len(p.accounts) :
          \A k \in 1..Len(p.accounts[idx].contributions) :
             \A richer \in {RicherTotals(p, idx, k)} :
                \A i \in 1..Len(ap_entries) :
                   IF Contributes(p, idx, k)
                   THEN (/\ ap_entries[i].age >= FirstContributionAge(p, idx, k)
                         /\ \/ ap_entries[i].age < p.retire_age
                            \/ ~WithdrawalYear(p, i)
                            \/ Len(p.accounts) = 1) =>
                           QLt(ap_entries[i].total.nominal, richer[i])
                   ELSE richer[i] = ap_entries[i].total.nominal

\* C20 witness: a finished run of a plan with a rule that starts after the
\* first simulated age, whose larger base leaves the year before unchanged
\* and makes the final total, after a withdrawal, strictly larger.
C20_Witness ==
    /\ ap_pc = "done"
    /\ Len(Val(ap_prepared).accounts) = 1
    /\ WithdrawalYear(Val(ap_prepared), Len(ap_entries))
    /\ \E k \in 1..Len(Val(ap_prepared).accounts[1].contributions) :
          /\ Val(ap_prepared).accounts[1].contributions[k].from_age =
                Val(ap_prepared).start_age + 1
          /\ RicherTotals(Val(ap_prepared), 1, k)[1] = ap_entries[1].total.nominal
          /\ QLt(ap_entries[Len(ap_entries)].total.nominal,
                 RicherTotals(Val(ap_prepared), 1, k)[Len(ap_entries)])

\* A prepared plan without contributions, spending or growth overrides
NoFlows(p) ==
    /\ p.spending_schedule = <<>>
    /\ \A idx \in 1..Len(p.accounts) :
          p.accounts[idx].contributions = <<>> /\ p.accounts[idx].growth_overrides = <<>>

\* |a - b| < 1.0
QWithinOne(a, b) == QLt(QSub(a, b), QOne) /\ QLt(QSub(b, a), QOne)

\* C21: real-value invariance. In accumulate_plan, for a scenario whose
\* nominal rate equals the plan's inflation rate, with no contributions, no
\* spending and no growth overrides, the inflation-adjusted total differs by
\* less than 1.0 between any two years of the horizon.
C21_RealValueInvariance ==
    Prepared =>
       LET p == Val(ap_prepared)
       IN NoFlows(p) =>
             \A s \in 1..Len(p.scenarios) :
                p.scenarios[s].nominal_rate = p.inflation_rate =>
                   \A i, j \in {e \in 1..Len(ap_entries) :
                                  ap_entries[e].scenario = p.scenarios[s].kind} :
                      QWithinOne(ap_entries[i].total.real, ap_entries[j].total.real)

\* C21 witness: a finished run of the flat scenario over a plan without
\* flows and with a positive balance, whose nominal total has grown from the
\* first year to the last while its real total has not moved.
C21_Witness ==
    /\ ap_pc = "done"
    /\ NoFlows(Val(ap_prepared))
    /\ Val(ap_prepared).scenarios[1].nominal_rate = Val(ap_prepared).inflation_rate
    /\ Len(ap_entries) > 2
    /\ QLt(QAdd(ap_entries[1].total.nominal, QOne), ap_entries[Len(ap_entries)].total.nominal)
    /\ ap_entries[1].total.real = ap_entries[Len(ap_entries)].total.real

\* The prepared plan with one more growth-override interval on account idx
WithOverride(p, idx, row) ==
    [p EXCEPT !.accounts[idx].growth_overrides = Append(@, row)]

\* Additional intervals with a rate above every scenario's rate: before the
\* first simulated age, inside the working years, and at the retirement age
ExtraOverrides ==
    [from_age : {StartAge - 1, StartAge + 1, RetireAge}, rate : {QOne},
     years : {NoneVal, Some(1)}]

\* The intervals tried on account idx: on an account that holds the high
\* override also one of a rate between the scenario's and that override's
CandidateOverrides(p, idx) ==
    ExtraOverrides \cup
       (IF p.accounts[idx].growth_overrides \in HighOverrideRows
        THEN {[from_age |-> StartAge + 1, rate |-> Q(3, 4), years |-> NoneVal]}
        ELSE {})

\* prepare_plan finds no error in the overrides of account idx
OverridesAccepted(p, idx) ==
    _validate_rows(p.accounts[idx].growth_overrides, OverridesEnd(p.retire_age),
                   p.accounts[idx].label \o " growth overrides").errors = <<>>

\* The entries at whose age plan q applies a higher rate to account idx than
\* plan p does
RateRaised(p, q, idx) ==
    {i \in 1..Len(ap_entries) :
        QLt(NominalRate(p, p.scenarios[1], idx, ap_entries[i].age),
            NominalRate(q, q.scenarios[1], idx, ap_entries[i].age))}

\* The number of rules the request declares: the contribution rules and the
\* growth overrides of its accounts, and the rows of its spending schedule
RECURSIVE RulesOf(_, _)
RulesOf(accounts, i) ==
    IF i > Len(accounts) THEN 0
    ELSE Len(accounts[i].contributions) + Len(accounts[i].growth_overrides)
         + RulesOf(accounts, i + 1)
DeclaredRules(plan) == RulesOf(plan.accounts, 1) + Len(plan.spending_schedule)

\* The plan with one more interval is itself a plan of at most MaxPlanRules
\* rules
RoomForOverride == ap_pc = "done" /\ DeclaredRules(ap_plan) < MaxPlanRules

\* The final total of the plan with the additional interval
OverrideFinalTotal(p, idx, row) ==
    LET totals == ScenarioTotals(WithOverride(p, idx, row), p.scenarios[1])
    IN totals[Len(totals)]

\* C22: growth-override improvement. Of two plans that are identical except
\* that one has an additional growth-override interval whose rate is higher
\* than the scenario's default rate, the plan with the override has the
\* strictly greater final total balance.
C22_OverrideImproves ==
    RoomForOverride =>
       LET p == Val(ap_prepared)
       IN \A idx \in 1..Len(p.accounts) : \A row \in CandidateOverrides(p, idx) :
             (OverridesAccepted(WithOverride(p, idx, row), idx)
              /\ QLt(p.scenarios[1].nominal_rate, row.rate)) =>
                QLt(ap_entries[Len(ap_entries)].total.nominal,
                    OverrideFinalTotal(p, idx, row))

\* C22 as amended: when the additional interval changes the rate of its
\* account at no simulated age the final totals are equal; when it raises the
\* rate at one simulated age or more and lowers it at none, the account's
\* balance is positive when growth is applied at each age where the rate is
\* raised, and the retirement year has no withdrawal or the plan has one
\* account, the plan with the override has the strictly greater final total.
C22_RaisedRateImproves ==
    RoomForOverride =>
       LET p == Val(ap_prepared)
           last == Len(ap_entries)
       IN \A idx \in 1..Len(p.accounts) : \A row \in CandidateOverrides(p, idx) :
             LET q == WithOverride(p, idx, row)
                 raised == RateRaised(p, q, idx)
                 lowered == RateRaised(q, p, idx)
             IN (OverridesAccepted(q, idx) /\ QLt(p.scenarios[1].nominal_rate, row.rate)) =>
                   IF raised = {} /\ lowered = {}
                   THEN OverrideFinalTotal(p, idx, row) = ap_entries[last].total.nominal
                   ELSE (/\ lowered = {}
                         /\ \A i \in raised : QLt(QZero, AfterWithdrawal(p, i)[idx])
                         /\ ~WithdrawalYear(p, last) \/ Len(p.accounts) = 1) =>
                           QLt(ap_entries[last].total.nominal,
                               OverrideFinalTotal(p, idx, row))

\* C22 witness: a finished run of a single-account plan with a contribution
\* rule and a withdrawal at retirement, where one more interval inside the
\* working years, of a rate above the scenario's, is accepted and gives a
\* greater final total.
C22_Witness ==
    /\ RoomForOverride
    /\ Val(ap_prepared).accounts[1].contributions # <<>>
    /\ Len(Val(ap_prepared).accounts) = 1
    /\ WithdrawalYear(Val(ap_prepared), Len(ap_entries))
    /\ \E row \in ExtraOverrides :
          /\ row.from_age = Val(ap_prepared).start_age + 1
          /\ OverridesAccepted(WithOverride(Val(ap_prepared), 1, row), 1)
          /\ RateRaised(Val(ap_prepared), WithOverride(Val(ap_prepared), 1, row), 1) # {}
          /\ QLt(ap_entries[Len(ap_entries)].total.nominal,
                 OverrideFinalTotal(Val(ap_prepared), 1, row))

\* The plan declares retirement spending of a positive amount
SpendingEnabled(plan) ==
    \/ NonZero(plan.starting_retirement_spending)
    \/ \E i \in 1..Len(plan.spending_schedule) :
          QLt(QZero, plan.spending_schedule[i].annual_spending)

\* The same plan with spending disabled, as test_retirement_spending_reduces_balance
\* builds it, and the final total of its run
SaverPlan(plan) ==
    [plan EXCEPT !.spending_schedule = <<>>, !.starting_retirement_spending = QZero]

SaverFinalTotal ==
    LET saver == prepare_plan(SaverPlan(ap_plan), FALSE).prepared
        totals == ScenarioTotals(saver, saver.scenarios[1])
    IN totals[Len(totals)]

FinalTotal == ap_entries[Len(ap_entries)].total.nominal

\* A finished run has one entry per age from start_age to retire_age, and is
\* answered with status 200 and those entries
FullRun ==
    /\ ap_validation.errors = <<>>
    /\ Len(ap_entries) = ap_plan.retire_age - ap_plan.start_age + 1
    /\ \A i \in 1..Len(ap_entries) : ap_entries[i].age = ap_plan.start_age + i - 1
    /\ ap_response # NoneVal =>
          Val(ap_response).status = 200 /\ Val(ap_response).rows = ap_entries

\* C23: spending monotonicity. Of two plans that are identical except that
\* one has retirement spending enabled (a positive amount) and the other has
\* it disabled, the final balance with spending is strictly smaller; when the
\* spending exceeds the balance the balance becomes negative and the run
\* still completes with a full set of rows and no error.
C23_SpendingMonotonicity ==
    (ap_pc = "done" /\ SpendingEnabled(ap_plan)) =>
       LET p == Val(ap_prepared)
           last == Len(ap_entries)
       IN /\ QLt(FinalTotal, SaverFinalTotal)
          /\ (WithdrawalYear(p, last)
              /\ QLt(QSum(BeforeWithdrawal(p, last)), NeedAt(p, last))) =>
                (QLt(FinalTotal, QZero) /\ FullRun)

\* C23 as amended: a plan with spending enabled whose run makes no
\* withdrawal (the schedule that reaches the simulation has no positive
\* amount at the retirement age) ends with the same total as the plan with
\* spending disabled. When a withdrawal is made, the final total is strictly
\* smaller than without spending provided the total before the withdrawal is
\* <= 0 or the final total without spending is positive; a withdrawal above
\* the total leaves a negative total net of the withdrawal, a negative final
\* total when both totals just named are positive, and the run completes
\* with a full set of rows and no error.
C23_WithdrawalReduces ==
    (ap_pc = "done" /\ SpendingEnabled(ap_plan)) =>
       LET p == Val(ap_prepared)
           last == Len(ap_entries)
           total == QSum(BeforeWithdrawal(p, last))
       IN \A saver \in {SaverFinalTotal} :
             /\ FullRun
             /\ IF ~WithdrawalYear(p, last)
                THEN FinalTotal = saver
                ELSE /\ (QLe(total, QZero) \/ QLt(QZero, saver)) => QLt(FinalTotal, saver)
                     /\ QLt(total, NeedAt(p, last)) =>
                           /\ QLt(QSum(AfterWithdrawal(p, last)), QZero)
                           /\ (QLt(QZero, total) /\ QLt(QZero, saver)) =>
                                 QLt(FinalTotal, QZero)

\* C23 witness: a finished run with a withdrawal above a positive total: the
\* final total is negative and below the positive final total of the plan
\* without spending.
C23_Witness ==
    /\ ap_pc = "done"
    /\ SpendingEnabled(ap_plan)
    /\ WithdrawalYear(Val(ap_prepared), Len(ap_entries))
    /\ QLt(QZero, QSum(BeforeWithdrawal(Val(ap_prepared), Len(ap_entries))))
    /\ QLt(QSum(BeforeWithdrawal(Val(ap_prepared), Len(ap_entries))),
           NeedAt(Val(ap_prepared), Len(ap_entries)))
    /\ QLt(FinalTotal, QZero)
    /\ QLt(QZero, SaverFinalTotal)
    /\ ap_response # NoneVal

\* A withdrawal from a plan with one account leaves a smaller, positive total
SingleAccountWithdrawal ==
    /\ ap_pc = "done"
    /\ Len(Val(ap_prepared).accounts) = 1
    /\ WithdrawalYear(Val(ap_prepared), Len(ap_entries))
    /\ QLt(QZero, FinalTotal)
    /\ QLt(FinalTotal, SaverFinalTotal)

\* The amount scheduled for account idx in the year of entry i
ContributionAt(p, i, idx) ==
    Get(_expand_contributions(p.accounts[idx].contributions, p.start_age, p.retire_age),
        ap_entries[i].age, QZero)

\* C24: the multi-account engine uses the canonical order. In accumulate_plan,
\* at every working age, the contribution is added after that year's growth:
\* the account balance after the year is balance before x (1 + rate) +
\* contribution, and the contribution earns no growth in the year it is made.
C24_ContributionAfterGrowth ==
    Prepared =>
       LET p == Val(ap_prepared)
       IN \A i \in 1..Len(ap_entries) : \A idx \in 1..Len(p.accounts) :
             ap_entries[i].age < p.retire_age =>
                ap_entries[i].accounts[idx].nominal =
                   QAdd(QMul(BalanceBefore(p, i, idx),
                             QAdd(QOne, NominalRate(p, p.scenarios[1], idx, ap_entries[i].age))),
                        ContributionAt(p, i, idx))

\* What the code does in a working year: the contribution is added first and
\* grows with the balance in the year it is made.
ContributionGrowsInItsYear ==
    Prepared =>
       LET p == Val(ap_prepared)
       IN \A i \in 1..Len(ap_entries) : \A idx \in 1..Len(p.accounts) :
             ap_entries[i].age < p.retire_age =>
                ap_entries[i].accounts[idx].nominal =
                   QMul(QAdd(BalanceBefore(p, i, idx), ContributionAt(p, i, idx)),
                        QAdd(QOne, NominalRate(p, p.scenarios[1], idx, ap_entries[i].age)))

\* A working year with a contribution under a rate that is not zero
GrowingContribution ==
    /\ Prepared
    /\ \E i \in 1..Len(ap_entries) : \E idx \in 1..Len(Val(ap_prepared).accounts) :
          /\ ap_entries[i].age < Val(ap_prepared).retire_age
          /\ NonZero(ContributionAt(Val(ap_prepared), i, idx))
          /\ NonZero(NominalRate(Val(ap_prepared), Val(ap_prepared).scenarios[1], idx,
                                 ap_entries[i].age))

\* The override rows of account idx whose window covers the age: from_age up
\* to from_age + years, or up to the next row of the account when years is
\* absent, and never past the retirement age
CoveringOverrides(p, idx, age) ==
    LET rows == SortByFrom_age(p.accounts[idx].growth_overrides)
    IN {k \in 1..Len(rows) :
          /\ rows[k].from_age <= age
          /\ age < StatedWindowEnd(rows, k, p.retire_age + 1)
          /\ age <= p.retire_age}

\* The rate the claim states for account idx at an age
StatedRate(p, scenario, idx, age) ==
    LET rows == SortByFrom_age(p.accounts[idx].growth_overrides)
        covering == CoveringOverrides(p, idx, age)
    IN IF covering # {} THEN rows[CHOOSE k \in covering : TRUE].rate
       ELSE scenario.nominal_rate

\* The balances of the year of entry i when growth is applied
BeforeGrowth(p, i) ==
    AfterSpending(p, ap_entries[i].age,
                  AfterContributions(p, ap_entries[i].age, BeforeWithdrawal(p, i)))

\* C25: in accumulate_plan, at every simulated age the growth rate applied to
\* an account is that account's override rate when one of its GrowthOverride
\* windows covers the age (also when the override rate is exactly 0) and the
\* scenario's nominal rate otherwise; an override declared on one account
\* never changes the rate applied to another account, and an override window
\* never extends past the retirement age.
C25_OverrideRateApplied ==
    Prepared =>
       LET p == Val(ap_prepared)
       IN \A idx \in 1..Len(p.accounts) :
             /\ ap_pc = "done" =>
                   \A i \in 1..Len(ap_entries) :
                      /\ Cardinality(CoveringOverrides(p, idx, ap_entries[i].age)) <= 1
                      /\ ap_entries[i].accounts[idx].nominal =
                            QMul(BeforeGrowth(p, i)[idx],
                                 QAdd(QOne, StatedRate(p, p.scenarios[1], idx,
                                                       ap_entries[i].age)))
                      /\ p.accounts[idx].growth_overrides = <<>> =>
                            ap_entries[i].accounts[idx].nominal =
                               QMul(BeforeGrowth(p, i)[idx],
                                    QAdd(QOne, p.scenarios[1].nominal_rate))
             /\ \A a \in DOMAIN _expand_overrides(p.accounts[idx].growth_overrides,
                                                  p.start_age, p.retire_age) :
                   a <= p.retire_age

\* C25 witness: a year in which the first of two accounts is under an
\* override of rate 0 and keeps its balance, while the second account, which
\* holds a balance, grows at the scenario's rate.
C25_Witness ==
    /\ ap_pc = "done"
    /\ Len(Val(ap_prepared).accounts) = 2
    /\ \E i \in 1..Len(ap_entries) :
          /\ CoveringOverrides(Val(ap_prepared), 1, ap_entries[i].age) # {}
          /\ StatedRate(Val(ap_prepared), Val(ap_prepared).scenarios[1], 1,
                        ap_entries[i].age) = QZero
          /\ QLt(QZero, BeforeGrowth(Val(ap_prepared), i)[1])
          /\ ap_entries[i].accounts[1].nominal = BeforeGrowth(Val(ap_prepared), i)[1]
          /\ QLt(QZero, BeforeGrowth(Val(ap_prepared), i)[2])
          /\ QLt(BeforeGrowth(Val(ap_prepared), i)[2], ap_entries[i].accounts[2].nominal)
    /\ \E j \in 1..Len(ap_entries) :
          CoveringOverrides(Val(ap_prepared), 1, ap_entries[j].age) = {}

\* The window of a spending item: [from_age, from_age + years), unbounded
\* above when years is None
InItemWindow(item, age) ==
    /\ item.from_age <= age
    /\ IsNone(item.years) \/ age < item.from_age + Val(item.years)

\* The nominal spending the claim states for an item in a year
StatedItemSpending(plan, item, age, infl) ==
    IF age >= plan.retirement_age /\ InItemWindow(item, age)
    THEN QMul(item.annual_spending_today, QPow(QAdd(QOne, infl), age - plan.current_age))
    ELSE QZero

StatedYearSpending(plan, items, age, infl) ==
    QSum([idx \in 1..Len(items) |-> StatedItemSpending(plan, items[idx], age, infl)])

\* C26: in simulate_scenario, for every spending item and every age >=
\* retirement_age inside the item's window [from_age, from_age + years)
\* (unbounded above when years is None), the item's nominal spending of that
\* year is annual_spending_today x (1 + scenario inflation)^(age - current_age)
\* and is subtracted from the balance, also for an item whose from_age is
\* below the retirement age; outside the window the item contributes no
\* spending.
C26_SpendingItemWindow ==
    ss_pc \in {"running", "call", "zip"} =>
       LET items == get_effective_spending_items(ss_plan, ss_yar)
       IN \A i \in 1..Len(ss_rows) :
             LET spend == StatedYearSpending(ss_plan, items, ss_rows[i].age, ss_rates.inflation)
             IN /\ ss_rows[i].spending = spend
                /\ ss_rows[i].ending_balance =
                      EndOfYearBalance(ss_rows[i].starting_balance, spend,
                                       ss_rates.nominal_growth, ss_rows[i].contributions)

\* What the code does: the statement holds for the items that start at or
\* after the retirement age, and an item that starts before it spends nothing
\* in any year.
SpendingOfItemsFromRetirement ==
    ss_pc \in {"running", "call", "zip"} =>
       LET items == get_effective_spending_items(ss_plan, ss_yar)
       IN \A i \in 1..Len(ss_rows) :
             ss_rows[i].spending =
                QSum([idx \in 1..Len(items) |->
                        IF items[idx].from_age >= ss_plan.retirement_age
                        THEN StatedItemSpending(ss_plan, items[idx], ss_rows[i].age,
                                                ss_rates.inflation)
                        ELSE QZero])

\* A retirement year inside the window of an item that starts before the
\* retirement age, under an inflation rate that is not zero
EarlyItemRetirementYear ==
    /\ ss_pc = "running"
    /\ ss_rows # <<>>
    /\ ss_plan.spending_items # <<>>
    /\ ss_plan.spending_items[1].from_age < ss_plan.retirement_age
    /\ ss_rows[Len(ss_rows)].age > ss_plan.retirement_age
    /\ NonZero(ss_rates.inflation)

\* A retirement year in which an item that starts after the retirement age
\* spends its inflated amount
LateItemSpends ==
    /\ ss_pc = "running"
    /\ ss_rows # <<>>
    /\ ss_plan.spending_items # <<>>
    /\ ss_plan.spending_items[1].from_age > ss_plan.retirement_age
    /\ QLt(ss_plan.spending_items[1].annual_spending_today, ss_rows[Len(ss_rows)].spending)

\* Both error margins of the call are >= 0
MarginsNonNegative ==
    /\ QLe(QZero, ps_req.growthAssumptions.inflationErrorMargin)
    /\ QLe(QZero, ps_req.growthAssumptions.investmentReturnErrorMargin)

\* min <= avg <= max
Ascending(v) == QLe(v["min"], v["avg"]) /\ QLe(v["avg"], v["max"])

\* C27: band ordering. When both error margins are >= 0, every row returned
\* by project_savings_with_retirement has savings.min <= savings.avg <=
\* savings.max and spending.min >= spending.avg >= spending.max, for every
\* plan and every horizon, including the years in which the balances have
\* become negative.
C27_BandOrdering ==
    (ps_pc \in {"running", "done"} /\ MarginsNonNegative) =>
       \A i \in 1..Len(ps_rows) :
          /\ Ascending(ps_rows[i].savings)
          /\ QLe(ps_rows[i].spending["max"], ps_rows[i].spending["avg"])
          /\ QLe(ps_rows[i].spending["avg"], ps_rows[i].spending["min"])

\* What the code does: the spending bands are ordered in every row, and the
\* savings bands in every row whose three balances are >= 0.
BandOrderingWhileSolvent ==
    (ps_pc \in {"running", "done"} /\ MarginsNonNegative) =>
       \A i \in 1..Len(ps_rows) :
          /\ (\A b \in Bands : QLe(QZero, ps_rows[i].savings[b])) =>
                Ascending(ps_rows[i].savings)
          /\ QLe(ps_rows[i].spending["max"], ps_rows[i].spending["avg"])
          /\ QLe(ps_rows[i].spending["avg"], ps_rows[i].spending["min"])

\* A row whose balances are negative and in the reverse order
DebtReversesBands ==
    /\ ps_pc \in {"running", "done"}
    /\ MarginsNonNegative
    /\ \E i \in 1..Len(ps_rows) :
          /\ QLt(ps_rows[i].savings["max"], ps_rows[i].savings["avg"])
          /\ QLt(ps_rows[i].savings["avg"], ps_rows[i].savings["min"])
          /\ QLt(ps_rows[i].savings["min"], QZero)

\* A row with positive balances and spending, both strictly ordered
SolventBandsOrdered ==
    /\ ps_pc \in {"running", "done"}
    /\ \E i \in 1..Len(ps_rows) :
          /\ QLt(QZero, ps_rows[i].savings["min"])
          /\ QLt(ps_rows[i].savings["min"], ps_rows[i].savings["avg"])
          /\ QLt(ps_rows[i].savings["avg"], ps_rows[i].savings["max"])
          /\ QLt(ps_rows[i].spending["max"], ps_rows[i].spending["avg"])
          /\ QLt(ps_rows[i].spending["avg"], ps_rows[i].spending["min"])

\* C28: a withdrawal never increases any account's balance. For every list of
\* account balances (negative balances included) and every need >= 0, after
\* _apply_spending each account's balance is less than or equal to its
\* balance before the call. (Stated of the entry just recorded.)
C28_WithdrawalNeverIncreases ==
    Prepared =>
       LET p == Val(ap_prepared)
       IN \A i \in {Len(ap_entries)} \ {0} :
             (WithdrawalYear(p, i) /\ QLe(QZero, NeedAt(p, i))) =>
                \A k \in 1..Len(p.accounts) :
                   QLe(AfterWithdrawal(p, i)[k], BeforeWithdrawal(p, i)[k])

\* What the code does: no balance rises when the total is <= 0 or no account
\* is in debt; under a positive total an account in debt is credited.
WithdrawalLowersSolventAccounts ==
    Prepared =>
       LET p == Val(ap_prepared)
       IN \A i \in {Len(ap_entries)} \ {0} : WithdrawalYear(p, i) =>
             LET before == BeforeWithdrawal(p, i)
                 after  == AfterWithdrawal(p, i)
             IN \A k \in 1..Len(before) :
                   IF QLt(QZero, QSum(before)) /\ QLt(before[k], QZero)
                   THEN QLt(before[k], after[k])
                   ELSE QLe(after[k], before[k])

\* A withdrawal under a positive total that credits the account in debt and
\* takes more than the need from the other account
DebtAccountCredited ==
    /\ Prepared
    /\ Len(Val(ap_prepared).accounts) = 2
    /\ \E i \in 1..Len(ap_entries) :
          /\ WithdrawalYear(Val(ap_prepared), i)
          /\ QLt(BeforeWithdrawal(Val(ap_prepared), i)[2], AfterWithdrawal(Val(ap_prepared), i)[2])
          /\ QLt(NeedAt(Val(ap_prepared), i),
                 QSub(BeforeWithdrawal(Val(ap_prepared), i)[1],
                      AfterWithdrawal(Val(ap_prepared), i)[1]))

\* C29: prepare_plan preserves the declared account balances. For every plan
\* with at least one declared account, each prepared account starts the
\* simulation with exactly the initialBalance declared for that account (the
\* first account included), and the input plan's accounts are not modified.
C29_DeclaredBalancesKept ==
    (Prepared /\ ap_plan.accounts # <<>>) =>
       /\ Len(Val(ap_prepared).accounts) = Len(ap_plan.accounts)
       /\ \A i \in 1..Len(ap_plan.accounts) :
             /\ Val(ap_prepared).accounts[i].initial_balance =
                   ap_plan.accounts[i].initial_balance
             /\ (ap_pc = "simulating" /\ ap_entries = <<>>) =>
                   ap_balances[i] = ap_plan.accounts[i].initial_balance

\* What the code does: every account but the first keeps its declared
\* balance, and the first starts with max(plan.initial_balance - the other
\* accounts' total, 0).
FirstBalanceFromPlanTotal ==
    (Prepared /\ ap_plan.accounts # <<>>) =>
       LET declared == [i \in 1..Len(ap_plan.accounts) |-> ap_plan.accounts[i].initial_balance]
           others == QSub(QSum(declared), declared[1])
       IN /\ \A i \in 2..Len(declared) :
                Val(ap_prepared).accounts[i].initial_balance = declared[i]
          /\ Val(ap_prepared).accounts[1].initial_balance =
                QMax(QSub(ap_plan.initial_balance, others), QZero)

\* A single declared account with a positive balance that starts the
\* simulation at 0, because the plan leaves its own initial_balance at 0
FirstBalanceLost ==
    /\ ap_pc = "simulating"
    /\ ap_entries = <<>>
    /\ Len(ap_plan.accounts) = 1
    /\ QLt(QZero, ap_plan.accounts[1].initial_balance)
    /\ ap_balances[1] = QZero

\* A plan whose declared balances reach the simulation unchanged
DeclaredBalancesUsed ==
    /\ ap_pc = "simulating"
    /\ ap_entries = <<>>
    /\ Len(ap_plan.accounts) = 2
    /\ \A i \in 1..2 : ap_balances[i] = ap_plan.accounts[i].initial_balance

\* The declared rows that start at the retirement age
RowsAtRetirement(plan) ==
    {i \in 1..Len(plan.spending_schedule) :
        plan.spending_schedule[i].from_age = plan.retire_age}

SpendingKeptButRetirementRow ==
    Prepared =>
       LET declared == ap_plan.spending_schedule
           prepared == Val(ap_prepared).spending_schedule
           at_retire == RowsAtRetirement(ap_plan)
       IN /\ \A i \in 1..Len(declared) :
                \/ prepared[i] = declared[i]
                \/ /\ i \in at_retire /\ \A j \in at_retire : i <= j
                   /\ prepared[i] = [declared[i] EXCEPT !.annual_spending =
                                        ap_plan.starting_retirement_spending]
          /\ IF at_retire = {} /\ NonZero(ap_plan.starting_retirement_spending)
             THEN prepared = Append(declared, DefaultSpendingRow(ap_plan))
             ELSE Len(prepared) = Len(declared)

\* A declared row at the retirement age whose amount is lost: the plan's
\* startingRetirementSpending is 0 and the row reaches the simulation with 0
RetirementRowReplaced ==
    /\ ap_pc = "done"
    /\ RowsAtRetirement(ap_plan) # {}
    /\ ap_plan.starting_retirement_spending = QZero
    /\ \E i \in RowsAtRetirement(ap_plan) :
          /\ QLt(QZero, ap_plan.spending_schedule[i].annual_spending)
          /\ Val(ap_prepared).spending_schedule[i].annual_spending = QZero
    /\ ~WithdrawalYear(Val(ap_prepared), Len(ap_entries))

\* The same row reaching the simulation with its declared amount
RetirementRowKept ==
    /\ ap_pc = "done"
    /\ RowsAtRetirement(ap_plan) # {}
    /\ ap_plan.starting_retirement_spending = QZero
    /\ Val(ap_prepared).spending_schedule = ap_plan.spending_schedule
    /\ WithdrawalYear(Val(ap_prepared), Len(ap_entries))

\* A default row added after a declared row that starts later
DefaultRowAdded ==
    /\ Prepared
    /\ ap_plan.spending_schedule # <<>>
    /\ Len(Val(ap_prepared).spending_schedule) = Len(ap_plan.spending_schedule) + 1

====
